---- MODULE Spec2Model ----
(***************************************************************************)
(* Multi-cloud provisioning API (Abstract Factory): the provider factories *)
(* and their products, the factory registry, the infrastructure controller *)
(* with its in-memory repository, the VM endpoints with their service,     *)
(* factories and repository, the audit log and the service that reads it,  *)
(* the /logs endpoints, the lifecycle of VirtualMachine objects, and the   *)
(* infrastructure endpoints as statements interleaved on worker threads.   *)
(*                                                                         *)
(* Python values are represented as follows.  A dict is a function whose   *)
(* domain is the set of its keys; every dict value is a string.  An        *)
(* Optional[dict] is a record [some, val]; Optional[str] and               *)
(* Optional[bool] use the string "None" for None.  uuid4 values are the    *)
(* integers 1..MaxInfra; datetime.utcnow() is the value of clock.          *)
(***************************************************************************)
EXTENDS Integers, Sequences, FiniteSets, TLC

\* ------------------------------------------------------------------ bounds
MaxInfra == 1
MaxClock == 1
MaxLog == 2
MaxVMs == 2
MaxLines == 3
MaxPageSize == 2
MaxThreads == 2

VARIABLES
    factories,     \* FactoryProvider._factories : provider -> factory class
    infra_store,   \* _InfrastructureRepository._store : id -> InfrastructureRecord
    audit_log,     \* the lines of logs/audit.log, oldest first
    clock,         \* the value datetime.utcnow() returns now
    vms,           \* the VirtualMachine objects a client holds, in creation order
    vm_store,      \* VMRepository._store : vm id -> VMDTO
    uuids,         \* how many values uuid.uuid4() has handed to the VM factories
    threads,       \* the requests the server's worker threads are handling, each with
                   \* its position in the handler and its local variables
    last           \* the last request handled and what it returned

vars == <<factories, infra_store, audit_log, clock, vms, vm_store, uuids, threads, last>>

\* ------------------------------------------------------------- Python dicts
EmptyDict == [k \in {} |-> ""]

DictGet(d, k, default) == IF k \in DOMAIN d THEN d[k] ELSE default

\* d.setdefault(k, v) / "if k not in d: d[k] = v"
SetDefault(d, k, v) == d @@ (k :> v)

\* d[k] = v
DictPut(d, k, v) == (k :> v) @@ d

\* d.update(e)
DictUpdate(d, e) == e @@ d

None == [some |-> FALSE, val |-> EmptyDict]

Some(d) == [some |-> TRUE, val |-> d]

\* truth value of an Optional[dict]: None and {} are both falsy
Truthy(o) == o.some /\ DOMAIN o.val # {}

\* the elements of a list, in order, that are not keys of config
MissingFields(config, required) ==
    SelectSeq(required, LAMBDA f : f \notin DOMAIN config)

\* ------------------------------------------------------- abstract products
StatusCreating == "creating"

\* CloudResource.__init__
CloudResource(resource_id, name, region, type, specs) ==
    [resource_id |-> resource_id, name |-> name, region |-> region,
     status |-> StatusCreating, type |-> type, specs |-> specs]

\* a class can be instantiated only when it overrides every abstract method
Instantiable(kind, methods) ==
    LET \* methods marked @abstractmethod, per abstract product
        AbstractMethods ==
            [virtual_machine |-> {"get_resource_type", "get_specs", "start", "stop", "restart", "resize"},
             database |-> {"get_resource_type", "get_specs", "backup", "restore", "scale"},
             load_balancer |-> {"get_resource_type", "get_specs", "add_target", "remove_target",
                                "configure_health_check"},
             storage |-> {"get_resource_type", "get_specs", "create_bucket", "upload_file",
                          "download_file"}]
    IN
        AbstractMethods[kind] \subseteq methods

\* result of a call that may raise
Ok(res) == [ok |-> TRUE, err |-> "", missing |-> <<>>, res |-> res]

Raise(err, missing) == [ok |-> FALSE, err |-> err, missing |-> missing, res |-> EmptyDict]

\* ------------------------------------------------------------- AWS factory
AWSRegions == {"us-east-1", "us-west-1", "us-west-2", "eu-west-1",
               "eu-central-1", "ap-southeast-1", "ap-northeast-1"}

AWSValidateRegion(region) == region \in AWSRegions

\* the checks every AWS create_* makes before it constructs the product
AWSCreate(args, required) ==
    IF Len(args) # 2 THEN Raise("TypeError", <<>>)
    ELSE LET missing == MissingFields(args[2], required)
         IN IF missing # <<>> THEN Raise("ValueError", missing)
            ELSE IF ~AWSValidateRegion(args[2]["region"]) THEN Raise("ValueError", <<>>)
            ELSE Ok(EmptyDict)

EC2Instance(name, c) ==
    CloudResource("i-", name, c["region"], "AWS::EC2::Instance",
        [instance_type |-> c["instance_type"], ami |-> c["ami"], vpc_id |-> c["vpc_id"],
         region |-> c["region"], security_groups |-> DictGet(c, "security_groups", "[]"),
         private_ip |-> "", public_ip |-> ""])

AWSCloudFactory(kind, args) ==
    LET RDSDatabase(name, c) ==
            CloudResource("db-", name, c["region"], "AWS::RDS::DBInstance",
                [engine |-> c["engine"], instance_class |-> c["instance_class"],
                 allocated_storage |-> c["allocated_storage"], endpoint |-> "rds.amazonaws.com",
                 port |-> IF c["engine"] = "mysql" THEN "3306" ELSE "5432", region |-> c["region"]])
        ApplicationLoadBalancer(name, c) ==
            CloudResource("alb-", name, c["region"], "AWS::ElasticLoadBalancingV2::LoadBalancer",
                [vpc_id |-> c["vpc_id"], scheme |-> DictGet(c, "scheme", "internet-facing"),
                 dns_name |-> "elb.amazonaws.com", targets |-> "[]",
                 listeners |-> DictGet(c, "listeners", "[]"), region |-> c["region"]])
        S3Storage(name, c) ==
            CloudResource("s3-", name, c["region"], "AWS::S3::Bucket",
                [bucket_name |-> name, storage_class |-> DictGet(c, "storage_class", "STANDARD"),
                 region |-> c["region"],
                 versioning_enabled |-> IF DictGet(c, "versioning_enabled", "False") = "True"
                                        THEN "True" ELSE "False",
                 object_count |-> "0"])
        required ==
            CASE kind = "virtual_machine" -> <<"instance_type", "ami", "vpc_id", "region">>
              [] kind = "database" ->
                   <<"engine", "instance_class", "allocated_storage", "region">>
              [] kind = "load_balancer" -> <<"vpc_id", "region">>
              [] kind = "storage" -> <<"region">>
        checked == AWSCreate(args, required)
    IN IF ~checked.ok THEN checked
       ELSE CASE kind = "virtual_machine" -> Ok(EC2Instance(args[1], args[2]))
              [] kind = "database" -> Ok(RDSDatabase(args[1], args[2]))
              [] kind = "load_balancer" -> Ok(ApplicationLoadBalancer(args[1], args[2]))
              [] kind = "storage" -> Ok(S3Storage(args[1], args[2]))

\* ----------------------------------------------------------- Azure factory
AzureRegions == {"eastus", "westus", "westus2", "northeurope", "westeurope",
                 "southeastasia", "eastasia", "japaneast", "australiaeast"}

AzureValidateRegion(region) == region \in AzureRegions

\* the checks every Azure create_* makes before it constructs the product
AzureCreate(args, required) ==
    IF Len(args) # 2 THEN Raise("TypeError", <<>>)
    ELSE LET missing == MissingFields(args[2], required)
         IN IF missing # <<>> THEN Raise("ValueError", missing)
            ELSE IF ~AzureValidateRegion(args[2]["region"]) THEN Raise("ValueError", <<>>)
            ELSE Ok(EmptyDict)

AzureVirtualMachine(name, c) ==
    CloudResource("vm-", name, c["region"], "Microsoft.Compute/virtualMachines",
        [vm_size |-> c["vm_size"], image |-> c["image"], resource_group |-> c["resource_group"],
         region |-> c["region"],
         network_security_group |-> DictGet(c, "network_security_group", ""),
         virtual_network |-> DictGet(c, "virtual_network", ""),
         private_ip |-> "", public_ip |-> ""])

AzureCloudFactory(kind, args) ==
    LET AzureSQLDatabase(name, c) ==
            CloudResource("sqldb-", name, c["region"], "Microsoft.Sql/servers/databases",
                [tier |-> c["tier"], server_name |-> c["server_name"],
                 resource_group |-> c["resource_group"], connection_string |-> "database.windows.net",
                 max_size_gb |-> DictGet(c, "max_size_gb", "100"), region |-> c["region"]])
        AzureLoadBalancer(name, c) ==
            CloudResource("lb-", name, c["region"], "Microsoft.Network/loadBalancers",
                [resource_group |-> c["resource_group"], sku |-> DictGet(c, "sku", "Standard"),
                 backend_pools |-> "[]",
                 frontend_ip_configs |-> DictGet(c, "frontend_ip_configs", "[]"),
                 public_ip_address |-> "ip", region |-> c["region"]])
        AzureBlobStorage(name, c) ==
            CloudResource("blob-", name, c["region"], "Microsoft.Storage/storageAccounts",
                [storage_account_name |-> name,
                 account_type |-> DictGet(c, "account_type", "Standard_LRS"),
                 access_tier |-> DictGet(c, "access_tier", "Hot"), region |-> c["region"],
                 container_count |-> "0", connection_string |-> "AccountKey"])
        required ==
            CASE kind = "virtual_machine" -> <<"vm_size", "image", "resource_group", "region">>
              [] kind = "database" -> <<"tier", "server_name", "resource_group", "region">>
              [] kind = "load_balancer" -> <<"resource_group", "region">>
              [] kind = "storage" -> <<"region">>
        checked == AzureCreate(args, required)
    IN IF ~checked.ok THEN checked
       ELSE CASE kind = "virtual_machine" -> Ok(AzureVirtualMachine(args[1], args[2]))
              [] kind = "database" -> Ok(AzureSQLDatabase(args[1], args[2]))
              [] kind = "load_balancer" -> Ok(AzureLoadBalancer(args[1], args[2]))
              [] kind = "storage" -> Ok(AzureBlobStorage(args[1], args[2]))

\* ---------------------------------------------------------- Oracle factory
OracleRegions == {"us-ashburn-1", "us-phoenix-1", "us-sanjose-1", "ca-toronto-1",
                  "ca-montreal-1", "eu-frankfurt-1", "eu-zurich-1", "eu-amsterdam-1",
                  "uk-london-1", "ap-tokyo-1", "ap-osaka-1", "ap-sydney-1",
                  "ap-melbourne-1", "ap-mumbai-1"}

OracleValidateRegion(region) == region \in OracleRegions

\* "for field in required_fields: if field not in config: raise" stops at the first one
FirstMissing(config, required) ==
    LET missing == MissingFields(config, required)
    IN IF missing = <<>> THEN <<>> ELSE <<missing[1]>>

\* the _validate_*_config methods: required fields, then one enumerated field
OracleValidate(config, required, field, default, allowed) ==
    IF FirstMissing(config, required) # <<>>
    THEN Raise("ValueError", FirstMissing(config, required))
    ELSE IF DictGet(config, field, default) \notin allowed THEN Raise("ValueError", <<>>)
    ELSE Ok(EmptyDict)

\* config = cfg.copy(); config["name"] = name; self._validate_*_config(config):
\* the config handed to the product, or the error
OracleCreate(args, required, field, default, allowed) ==
    IF Len(args) # 2 THEN Raise("TypeError", <<>>)
    ELSE LET config == DictPut(args[2], "name", args[1])
             valid == OracleValidate(config, required, field, default, allowed)
         IN IF ~valid.ok THEN valid ELSE Ok(config)

OracleComputeInstance(c) ==
    CloudResource("oci-vm-", c["name"], DictGet(c, "region", "us-ashburn-1"),
        "oracle.compute.instance",
        [compute_shape |-> DictGet(c, "compute_shape", "VM.Standard2.1"),
         availability_domain |-> DictGet(c, "availability_domain", "AD-1"),
         compartment_id |-> DictGet(c, "compartment_id", "ocid1.compartment.oc1..example"),
         subnet_id |-> DictGet(c, "subnet_id", "ocid1.subnet.oc1..example"),
         image_id |-> DictGet(c, "image_id", "ocid1.image.oc1..example")])

OracleCloudFactory(kind, args) ==
    LET OracleComputeShapes == {"VM.Standard2.1", "VM.Standard2.2", "VM.Standard2.4", "VM.Standard2.8",
                                "VM.Standard3.Flex", "VM.Optimized3.Flex", "BM.Standard2.52",
                                "BM.Standard3.64", "VM.Standard.E3.Flex", "VM.Standard.E4.Flex"}
        OracleWorkloadTypes == {"OLTP", "DW", "AJD", "APEX"}
        OracleLoadBalancerShapes == {"10Mbps", "100Mbps", "400Mbps", "8000Mbps"}
        OracleStorageTiers == {"Standard", "InfrequentAccess", "Archive"}
        OracleAutonomousDatabase(c) ==
            CloudResource("oci-db-", c["name"], DictGet(c, "region", "us-ashburn-1"),
                "oracle.database.autonomous",
                [workload_type |-> DictGet(c, "workload_type", "OLTP"),
                 cpu_count |-> DictGet(c, "cpu_count", "1"),
                 storage_tb |-> DictGet(c, "storage_tb", "1"),
                 compartment_id |-> DictGet(c, "compartment_id", "ocid1.compartment.oc1..example")])
        OracleLoadBalancer(c) ==
            CloudResource("oci-lb-", c["name"], DictGet(c, "region", "us-ashburn-1"),
                "oracle.loadbalancer",
                [shape |-> DictGet(c, "shape", "100Mbps"),
                 compartment_id |-> DictGet(c, "compartment_id", "ocid1.compartment.oc1..example"),
                 subnet_ids |-> DictGet(c, "subnet_ids", "[]"), backend_sets |-> "[]"])
        OracleObjectStorage(c) ==
            CloudResource("oci-storage-", c["name"], DictGet(c, "region", "us-ashburn-1"),
                "oracle.storage.bucket",
                [namespace |-> DictGet(c, "namespace", "my-namespace"),
                 compartment_id |-> DictGet(c, "compartment_id", "ocid1.compartment.oc1..example"),
                 storage_tier |-> DictGet(c, "storage_tier", "Standard"),
                 versioning_enabled |-> DictGet(c, "versioning_enabled", "False")])
        checked ==
            CASE kind = "virtual_machine" ->
                   OracleCreate(args, <<"compute_shape", "compartment_id",
                                        "availability_domain", "subnet_id", "image_id">>,
                                "compute_shape", "", OracleComputeShapes)
              [] kind = "database" ->
                   OracleCreate(args, <<"workload_type", "compartment_id">>,
                                "workload_type", "", OracleWorkloadTypes)
              [] kind = "load_balancer" ->
                   OracleCreate(args, <<"compartment_id">>,
                                "shape", "100Mbps", OracleLoadBalancerShapes)
              [] kind = "storage" ->
                   OracleCreate(args, <<"namespace", "compartment_id">>,
                                "storage_tier", "Standard", OracleStorageTiers)
    IN IF ~checked.ok THEN checked
       ELSE CASE kind = "virtual_machine" -> Ok(OracleComputeInstance(checked.res))
              [] kind = "database" -> Ok(OracleAutonomousDatabase(checked.res))
              [] kind = "load_balancer" -> Ok(OracleLoadBalancer(checked.res))
              [] kind = "storage" -> Ok(OracleObjectStorage(checked.res))

\* ------------------------------------------------------------- GCP factory
GCPRegions == {"us-central1", "us-east1", "us-west1", "us-west2", "europe-west1",
               "europe-west2", "asia-east1", "asia-southeast1"}

GCPValidateRegion(region) == region \in GCPRegions

\* _validate_vm_config, _validate_database_config, _validate_load_balancer_config,
\* _validate_storage_config
GCPValidate(kind, config) ==
    LET GCPMachineTypes == {"e2-micro", "e2-small", "e2-medium", "e2-standard-2", "e2-standard-4",
                            "n1-standard-1", "n1-standard-2", "n1-standard-4", "n1-standard-8",
                            "n2-standard-2", "n2-standard-4", "n2-standard-8"}
        GCPDatabaseEngines == {"mysql", "postgres", "sqlserver"}
        GCPLoadBalancerTypes == {"HTTP(S)", "TCP", "UDP", "SSL"}
        GCPStorageClasses == {"STANDARD", "NEARLINE", "COLDLINE", "ARCHIVE"}
        GCPStorageLocations == {"US", "EU", "ASIA"} \cup GCPRegions
    IN
        CASE kind = "virtual_machine" ->
               IF "machine_type" \notin DOMAIN config THEN Raise("ValueError", <<"machine_type">>)
               ELSE IF config["machine_type"] \notin GCPMachineTypes THEN Raise("ValueError", <<>>)
               ELSE Ok(EmptyDict)
          [] kind = "database" ->
               IF "engine" \notin DOMAIN config THEN Raise("ValueError", <<"engine">>)
               ELSE IF config["engine"] \notin GCPDatabaseEngines THEN Raise("ValueError", <<>>)
               ELSE Ok(EmptyDict)
          [] kind = "load_balancer" ->
               IF DictGet(config, "type", "HTTP(S)") \notin GCPLoadBalancerTypes
               THEN Raise("ValueError", <<>>) ELSE Ok(EmptyDict)
          [] kind = "storage" ->
               IF DictGet(config, "storage_class", "STANDARD") \notin GCPStorageClasses
               THEN Raise("ValueError", <<>>)
               ELSE IF DictGet(config, "location", "US") \notin GCPStorageLocations
               THEN Raise("ValueError", <<>>)
               ELSE Ok(EmptyDict)

\* the GCP product constructors: the classes leave abstract methods undefined, and
\* pass provider= to CloudResource.__init__, which has no such parameter
GCPProduct(kind, c) ==
    LET \* methods the GCP product classes define
        GCPMethods ==
            [virtual_machine |-> {"start", "stop", "resize", "get_status", "get_metadata"},
             database |-> {"create_backup", "restore_from_backup", "scale", "get_connection_string",
                           "get_metadata"},
             load_balancer |-> {"add_target", "remove_target", "configure_health_check", "get_metadata"},
             storage |-> {"upload_file", "download_file", "delete_file", "set_lifecycle_policy",
                          "get_metadata"}]
    IN
        IF ~Instantiable(kind, GCPMethods[kind]) THEN Raise("TypeError", <<>>)
        ELSE Raise("TypeError", <<>>)

GCPCloudFactory(kind, args) ==
    IF Len(args) # 2 THEN Raise("TypeError", <<>>)
    ELSE LET valid == GCPValidate(kind, args[2])
         IN IF ~valid.ok THEN valid ELSE GCPProduct(kind, DictPut(args[2], "name", args[1]))

\* ------------------------------------------------------ on-premise factory
\* sizes are compared as numbers; the values used here
TooSmall(v, min) == (min = 1 /\ v = "0") \/ (min = 10 /\ v \in {"0", "1", "2", "4"})

\* a validate_region that accepts one data centre only
OnPremValidateRegion_Closed(region) == region = "datacenter-1"

OnPremValidateRegion(region) == TRUE

OnPremValidate(kind, config) ==
    LET OnPremHypervisors == {"vmware", "hyperv", "kvm", "xen"}
        OnPremDatabaseEngines == {"postgresql", "mysql", "oracle", "sqlserver"}
        OnPremLoadBalancerTypes == {"nginx", "haproxy", "f5", "citrix"}
        OnPremStorageTypes == {"nfs", "smb", "iscsi", "fc"}
        OnPremAlgorithms == {"round_robin", "least_conn", "ip_hash", "least_time"}
    IN
        CASE kind = "virtual_machine" ->
               IF FirstMissing(config, <<"cpu", "ram_gb", "disk_gb", "nic">>) # <<>>
               THEN Raise("ValueError", FirstMissing(config, <<"cpu", "ram_gb", "disk_gb", "nic">>))
               ELSE IF DictGet(config, "hypervisor", "vmware") \notin OnPremHypervisors
               THEN Raise("ValueError", <<>>)
               ELSE IF TooSmall(config["cpu"], 1) \/ TooSmall(config["ram_gb"], 1)
                       \/ TooSmall(config["disk_gb"], 10)
               THEN Raise("ValueError", <<>>)
               ELSE Ok(EmptyDict)
          [] kind = "database" ->
               IF "engine" \notin DOMAIN config THEN Raise("ValueError", <<"engine">>)
               ELSE IF config["engine"] \notin OnPremDatabaseEngines THEN Raise("ValueError", <<>>)
               ELSE Ok(EmptyDict)
          [] kind = "load_balancer" ->
               IF DictGet(config, "type", "nginx") \notin OnPremLoadBalancerTypes
               THEN Raise("ValueError", <<>>)
               ELSE IF DictGet(config, "algorithm", "round_robin") \notin OnPremAlgorithms
               THEN Raise("ValueError", <<>>)
               ELSE Ok(EmptyDict)
          [] kind = "storage" ->
               IF "storage_type" \notin DOMAIN config THEN Raise("ValueError", <<"storage_type">>)
               ELSE IF config["storage_type"] \notin OnPremStorageTypes THEN Raise("ValueError", <<>>)
               ELSE IF TooSmall(DictGet(config, "capacity_gb", "100"), 10)
               THEN Raise("ValueError", <<>>)
               ELSE Ok(EmptyDict)

OnPremiseVirtualMachine(c) ==
    CloudResource("onprem-vm-", DictGet(c, "name", "onprem-vm-"),
        DictGet(c, "region", "datacenter-1"), "onprem.virtual_machine",
        [cpu_cores |-> DictGet(c, "cpu", "2"), ram_gb |-> DictGet(c, "ram_gb", "4"),
         disk_gb |-> DictGet(c, "disk_gb", "50"),
         hypervisor |-> DictGet(c, "hypervisor", "vmware"),
         network_interface |-> DictGet(c, "nic", "eth0"),
         host_server |-> DictGet(c, "host_server", "esxi-01.company.local"),
         datastore |-> DictGet(c, "datastore", "datastore1")])

\* the on-premise create_* methods take the config alone, without a name
OnPremiseCloudFactory(kind, args) ==
    LET OnPremiseDatabase(c) ==
            CloudResource("onprem-db-", DictGet(c, "name", "onprem-db-"),
                DictGet(c, "region", "datacenter-1"), "onprem.database",
                [engine |-> DictGet(c, "engine", "postgresql"), version |-> DictGet(c, "version", "13.0"),
                 port |-> DictGet(c, "port", "5432"),
                 host_server |-> DictGet(c, "host_server", "db-server-01.company.local"),
                 data_directory |-> DictGet(c, "data_directory", "/var/lib/postgresql/data"),
                 max_connections |-> DictGet(c, "max_connections", "100")])
        OnPremiseLoadBalancer(c) ==
            CloudResource("onprem-lb-", DictGet(c, "name", "onprem-lb-"),
                DictGet(c, "region", "datacenter-1"), "onprem.loadbalancer",
                [type |-> DictGet(c, "type", "nginx"), listen_port |-> DictGet(c, "listen_port", "80"),
                 algorithm |-> DictGet(c, "algorithm", "round_robin"),
                 host_server |-> DictGet(c, "host_server", "lb-server-01.company.local"),
                 backend_servers |-> "[]"])
        OnPremiseStorage(c) ==
            CloudResource("onprem-storage-", DictGet(c, "name", "onprem-share-"),
                DictGet(c, "region", "datacenter-1"), "onprem.storage",
                [storage_type |-> DictGet(c, "storage_type", "nfs"),
                 mount_point |-> DictGet(c, "mount_point", "/mnt/"),
                 capacity_gb |-> DictGet(c, "capacity_gb", "1000"),
                 host_server |-> DictGet(c, "host_server", "storage-server-01.company.local"),
                 protocol_version |-> DictGet(c, "protocol_version", "4.1"),
                 access_permissions |-> DictGet(c, "permissions", "rw")])
    IN
        IF Len(args) # 1 THEN Raise("TypeError", <<>>)
        ELSE LET valid == OnPremValidate(kind, args[1])
             IN IF ~valid.ok THEN valid
                ELSE CASE kind = "virtual_machine" -> Ok(OnPremiseVirtualMachine(args[1]))
                       [] kind = "database" -> Ok(OnPremiseDatabase(args[1]))
                       [] kind = "load_balancer" -> Ok(OnPremiseLoadBalancer(args[1]))
                       [] kind = "storage" -> Ok(OnPremiseStorage(args[1]))

\* --------------------------------------------------------- FactoryProvider
CloudProvider == {"aws", "azure", "gcp", "oracle", "onprem"}

\* FactoryProvider._register_default_factories
DefaultFactories ==
    [p \in CloudProvider |->
        CASE p = "aws" -> "AWSCloudFactory"
          [] p = "azure" -> "AzureCloudFactory"
          [] p = "gcp" -> "GCPCloudFactory"
          [] p = "oracle" -> "OracleCloudFactory"
          [] p = "onprem" -> "OnPremiseCloudFactory"]

\* a call of create_<kind> on an instance of a factory class
FactoryCreate(class, kind, args) ==
    CASE class = "AWSCloudFactory" -> AWSCloudFactory(kind, args)
      [] class = "AzureCloudFactory" -> AzureCloudFactory(kind, args)
      [] class = "GCPCloudFactory" -> GCPCloudFactory(kind, args)
      [] class = "OracleCloudFactory" -> OracleCloudFactory(kind, args)
      [] class = "OnPremiseCloudFactory" -> OnPremiseCloudFactory(kind, args)

\* a call of validate_region on an instance of a factory class
FactoryValidateRegion(class, region) ==
    CASE class = "AWSCloudFactory" -> AWSValidateRegion(region)
      [] class = "AzureCloudFactory" -> AzureValidateRegion(region)
      [] class = "GCPCloudFactory" -> GCPValidateRegion(region)
      [] class = "OracleCloudFactory" -> OracleValidateRegion(region)
      [] class = "OnPremiseCloudFactory" -> OnPremValidateRegion(region)

\* get_provider_info()["supported_regions"] of the factories that list their regions
SupportedRegions ==
    [aws |-> AWSRegions, azure |-> AzureRegions, gcp |-> GCPRegions,
     oracle |-> OracleRegions]

\* FactoryProvider.register_factory, behind register_custom_factory: the first mapping
\* of a provider is kept
RegisterFactory_KeepsFirst(registry, provider, class) ==
    IF provider \in DOMAIN registry THEN registry
    ELSE [q \in DOMAIN registry \cup {provider} |->
             IF q = provider THEN class ELSE registry[q]]

\* FactoryProvider.register_factory: self._factories[provider] = factory_class
RegisterFactory(registry, provider, class) ==
    [q \in DOMAIN registry \cup {provider} |-> IF q = provider THEN class ELSE registry[q]]

\* FactoryProvider.get_factory: ValueError for a key with no class, else an instance
\* of the registered class
ProviderGetFactory(registry, provider) ==
    IF provider \notin DOMAIN registry THEN Raise("ValueError", <<>>)
    ELSE Ok(registry[provider])

\* FactoryProvider.is_provider_supported
IsProviderSupported(registry, provider) == provider \in DOMAIN registry

\* ------------------------------------------------------------ audit logger
\* infrastructure/logger.py audit_log: one JSON line per call
AuditEntry(now, actor, action, vm_id, provider, success, details) ==
    [timestamp |-> now, actor |-> actor, action |-> action, vm_id |-> vm_id,
     provider |-> provider, success |-> success, details |-> details]

\* ------------------------------------------ infrastructure: create endpoint
\* f"{request.name}-vm", f"{request.name}-db", ... for the infrastructure names used
NameWith(name, suffix) ==
    CASE name = "web" /\ suffix = "virtual_machine" -> "web-vm"
      [] name = "web" /\ suffix = "database" -> "web-db"
      [] name = "web" /\ suffix = "load_balancer" -> "web-lb"
      [] name = "web" /\ suffix = "storage" -> "web-storage"
      [] name = "web" /\ suffix = "sqlsrv" -> "web-sqlsrv"
      [] name = "web" /\ suffix = "infrastructure" -> "web-infrastructure"

\* request.include_database / include_load_balancer / include_storage
IncludeOf(req, kind) ==
    CASE kind = "database" -> req.include_database
      [] kind = "load_balancer" -> req.include_load_balancer
      [] kind = "storage" -> req.include_storage

\* lines 194-228: the VM config the controller hands to the factory
VmConfigOf(req) ==
    LET base == IF Truthy(req.vm_config) THEN req.vm_config.val ELSE EmptyDict
        c == DictPut(base, "region", DictGet(base, "region", req.region))
    IN CASE req.provider = "aws" ->
              SetDefault(SetDefault(SetDefault(c, "instance_type", "t2.micro"),
                                    "ami", "ami-0abcdef1234567890"), "vpc_id", "vpc-12345678")
         [] req.provider = "azure" ->
              SetDefault(SetDefault(SetDefault(c, "vm_size", "Standard_B1s"),
                                    "resource_group", "rg-default"), "image", "Ubuntu 20.04 LTS")
         [] req.provider = "gcp" ->
              SetDefault(SetDefault(SetDefault(c, "machine_type", "e2-micro"),
                                    "zone", "us-central1-a"), "project", "demo-project")
         [] req.provider = "oracle" ->
              SetDefault(SetDefault(SetDefault(SetDefault(SetDefault(c,
                  "compute_shape", "VM.Standard2.1"),
                  "compartment_id", "ocid1.compartment.oc1..exampleuniqueID"),
                  "availability_domain", "AD-1"),
                  "subnet_id", "ocid1.subnet.oc1..examplesubnet"),
                  "image_id", "ocid1.image.oc1..exampleimage")
         [] req.provider = "onprem" ->
              SetDefault(SetDefault(SetDefault(c, "cpu", "2"), "ram_gb", "4"), "disk_gb", "50")
         [] OTHER -> c

ConfigOf(req, kind) ==
    LET \* lines 245-277
        DatabaseConfigOf ==
            LET vm_config == VmConfigOf(req)
                given == req.database_config
            IN CASE req.provider = "azure" ->
                      LET c == IF Truthy(given) THEN given.val
                               ELSE [region |-> req.region, tier |-> "Basic",
                                     server_name |-> NameWith(req.name, "sqlsrv"),
                                     resource_group |-> DictGet(vm_config, "resource_group", "rg-default")]
                      IN SetDefault(SetDefault(SetDefault(SetDefault(c, "tier", "Basic"),
                              "server_name", NameWith(req.name, "sqlsrv")),
                              "resource_group", DictGet(vm_config, "resource_group", "rg-default")),
                              "region", req.region)
                 [] req.provider = "oracle" ->
                      LET c == IF Truthy(given) THEN given.val ELSE EmptyDict
                      IN SetDefault(SetDefault(SetDefault(SetDefault(SetDefault(c,
                              "workload_type", "OLTP"),
                              "compartment_id", DictGet(vm_config, "compartment_id",
                                                        "ocid1.compartment.oc1..exampleuniqueID")),
                              "cpu_count", "1"), "storage_size", "20"), "region", req.region)
                 [] OTHER ->
                      IF Truthy(given) THEN given.val
                      ELSE [region |-> req.region, engine |-> "mysql",
                            instance_class |-> "db.t3.micro", allocated_storage |-> "20"]
        \* lines 294-311
        LoadBalancerConfigOf ==
            LET vm_config == VmConfigOf(req)
                c == IF Truthy(req.load_balancer_config) THEN req.load_balancer_config.val
                     ELSE [region |-> req.region, load_balancer_type |-> "application",
                           scheme |-> "internet-facing"]
            IN CASE req.provider = "aws" -> SetDefault(c, "vpc_id", "vpc-12345678")
                 [] req.provider = "azure" ->
                      SetDefault(c, "resource_group", DictGet(vm_config, "resource_group", "rg-default"))
                 [] req.provider = "oracle" ->
                      SetDefault(SetDefault(c, "compartment_id",
                                            DictGet(vm_config, "compartment_id",
                                                    "ocid1.compartment.oc1..exampleuniqueID")),
                                 "shape", "100Mbps")
                 [] OTHER -> c
        \* lines 328-358
        StorageConfigOf ==
            LET vm_config == VmConfigOf(req)
            IN IF Truthy(req.storage_config) THEN req.storage_config.val
               ELSE CASE req.provider = "aws" ->
                           [region |-> req.region, size_gb |-> "100", storage_type |-> "gp3"]
                      [] req.provider = "onprem" ->
                           [region |-> req.region, storage_type |-> "nfs", capacity_gb |-> "1000"]
                      [] req.provider = "oracle" ->
                           [region |-> req.region, namespace |-> "mytenantns",
                            compartment_id |-> DictGet(vm_config, "compartment_id",
                                                       "ocid1.compartment.oc1..exampleuniqueID"),
                            storage_tier |-> "Standard"]
                      [] OTHER ->
                           [region |-> req.region, size_gb |-> "100", storage_type |-> "standard"]
    IN
        CASE kind = "virtual_machine" -> VmConfigOf(req)
          [] kind = "database" -> DatabaseConfigOf
          [] kind = "load_balancer" -> LoadBalancerConfigOf
          [] kind = "storage" -> StorageConfigOf

\* the kinds the handler asks the factory for, in order: the VM always, the others
\* when their include flag is truthy
RequestedKinds(req) ==
    LET Kinds == <<"virtual_machine", "database", "load_balancer", "storage">>
    IN
        SelectSeq(Kinds, LAMBDA k : k = "virtual_machine" \/ IncludeOf(req, k) = "True")

\* lines 230-371: the factory calls, stopping at the first one that raises
RECURSIVE BuildResources(_, _, _, _)
BuildResources(class, req, kinds, acc) ==
    LET \* vm_info / db_info / lb_info / storage_info
        ResourceInfo(r) ==
            [name |-> r.name, resource_id |-> r.resource_id, region |-> r.region,
             status |-> r.status, type |-> r.type, specs |-> r.specs]
    IN
        IF kinds = <<>> THEN acc
        ELSE LET kind == Head(kinds)
                 r == FactoryCreate(class, kind, <<NameWith(req.name, kind), ConfigOf(req, kind)>>)
             IN IF ~r.ok THEN [acc EXCEPT !.ok = FALSE, !.err = r.err]
                ELSE BuildResources(class, req, Tail(kinds),
                         [acc EXCEPT !.details = (kind :> ResourceInfo(r.res)) @@ @,
                                     !.built = Append(@, kind)])

\* InfrastructureRecord(...) validates its fields: region and requested_by are str,
\* includes is Dict[str, bool]
RecordValid(req) ==
    /\ req.region # "None"
    /\ req.requested_by # "None"
    /\ \A k \in {"database", "load_balancer", "storage"} : IncludeOf(req, k) # "None"

InfrastructureRecord(id, req, details, now) ==
    [id |-> id, name |-> req.name, provider |-> req.provider, region |-> req.region,
     created_at |-> now, updated_at |-> now, requested_by |-> req.requested_by,
     resources |-> details,
     includes |-> [database |-> req.include_database = "True",
                   load_balancer |-> req.include_load_balancer = "True",
                   storage |-> req.include_storage = "True"],
     status |-> "active"]

NoRecord == [id |-> 0]

FailureAudit(req, now, details) ==
    AuditEntry(now, req.requested_by, "create_infrastructure", "error", req.provider,
               FALSE, details)

SuccessAudit(req, now, built) ==
    AuditEntry(now, req.requested_by, "create_infrastructure",
               NameWith(req.name, "infrastructure"), req.provider, TRUE,
               [infrastructure_name |-> req.name, resources_created |-> ToString(Len(built)),
                pattern |-> "Abstract Factory"])

\* ------------------------------------------------- requests to the endpoint
\* the request of the endpoint's documentation: AWS in us-east-1, every optional kind
DefaultCreateRequest ==
    [provider |-> "aws", name |-> "web", region |-> "us-east-1",
     vm_config |-> None, database_config |-> None, load_balancer_config |-> None,
     storage_config |-> None, include_database |-> "True",
     include_load_balancer |-> "True", include_storage |-> "True",
     requested_by |-> "system"]

VmOnly(req) ==
    [req EXCEPT !.include_database = "False", !.include_load_balancer = "False",
                !.include_storage = "False"]

\* one request per outcome of the handler: every kind built; the VM alone; the VM
\* rejected (a region AWS does not have); the database rejected after the VM was
\* built; a provider that is no CloudProvider; a null region next to vm_config.region
CreateRequests ==
    { DefaultCreateRequest,
      VmOnly(DefaultCreateRequest),
      [DefaultCreateRequest EXCEPT !.region = "eastus"],
      [DefaultCreateRequest EXCEPT !.database_config = Some([engine |-> "postgres"])],
      [DefaultCreateRequest EXCEPT !.provider = "foo"],
      [VmOnly(DefaultCreateRequest) EXCEPT !.region = "None",
                                           !.vm_config = Some([region |-> "us-east-1"])] }

\* the factory calls of one request depend on the factory class and the request only:
\* their result, for every class and every request used
Built ==
    LET NoResources == [ok |-> TRUE, err |-> "", details |-> EmptyDict, built |-> <<>>]
        FactoryClasses == {DefaultFactories[p] : p \in CloudProvider}
    IN
        [class \in FactoryClasses, req \in CreateRequests |->
            BuildResources(class, req, RequestedKinds(req), NoResources)]

\* lines 373-448: what the handler does once the factory calls returned b
AfterBuild(req, id, now, b) ==
    IF ~b.ok /\ b.err = "KeyError"
    THEN [status |-> 400,
          audits |-> <<FailureAudit(req, now, [error |-> "unsupported_provider"])>>,
          built |-> b.built, add |-> FALSE, record |-> NoRecord]
    ELSE IF ~b.ok
    THEN [status |-> 500,
          audits |-> <<FailureAudit(req, now,
                                    [error |-> "internal_error", details |-> b.err])>>,
          built |-> b.built, add |-> FALSE, record |-> NoRecord]
    ELSE IF ~RecordValid(req)
    THEN [status |-> 500,
          audits |-> <<SuccessAudit(req, now, b.built),
                       FailureAudit(req, now, [error |-> "internal_error",
                                               details |-> "ValidationError"])>>,
          built |-> b.built, add |-> FALSE, record |-> NoRecord]
    ELSE [status |-> 200, audits |-> <<SuccessAudit(req, now, b.built)>>,
          built |-> b.built, add |-> TRUE,
          record |-> InfrastructureRecord(id, req, b.details, now)]

\* create_infrastructure, as a function of the request: the HTTP status, the audit
\* lines written, the kinds constructed and the record added (if any)
CreateInfrastructureOutcome(registry, req, id, now) ==
    LET \* CloudProvider(value) followed by create_cloud_factory: ValueError when the value is
        \* not an enum member or no class is registered for it
        GetFactory(value) ==
            IF value \notin CloudProvider \/ value \notin DOMAIN registry
            THEN Raise("ValueError", <<>>)
            ELSE Ok(registry[value])
        \* str.lower() on the provider strings a request carries
        Lower(s) == IF s = "AWS" THEN "aws" ELSE s
        f == GetFactory(Lower(req.provider))
    IN IF ~f.ok
       THEN [status |-> 400, audits |-> <<>>, built |-> <<>>, add |-> FALSE,
             record |-> NoRecord]
       ELSE AfterBuild(req, id, now, Built[f.res, req])

\* ------------------------------------------------ _InfrastructureRepository
NoRecords == [i \in {} |-> NoRecord]

\* a lookup that checks the id only, not the status
Missing_IgnoresStatus(store, infra_id) == infra_id \notin DOMAIN store

\* "not rec or rec.status != 'active'"
Missing(store, infra_id) ==
    infra_id \notin DOMAIN store \/ store[infra_id].status # "active"

\* _InfrastructureRepository.add
RepoAdd(store, record) == (record.id :> record) @@ store

RECURSIVE ActiveFrom(_, _)
ActiveFrom(store, i) ==
    IF i \notin DOMAIN store THEN <<>>
    ELSE (IF store[i].status = "active" THEN <<store[i]>> ELSE <<>>)
         \o ActiveFrom(store, i + 1)

\* a delete that stamps the record but leaves its status
RepoDelete_KeepsStatus(store, infra_id, now) ==
    [store EXCEPT ![infra_id].updated_at = now]

\* a delete that erases the row
RepoDelete_Physical(store, infra_id, now) ==
    [i \in DOMAIN store \ {infra_id} |-> store[i]]

\* _InfrastructureRepository.delete: the store after a delete that does not raise
RepoDelete(store, infra_id, now) ==
    [store EXCEPT ![infra_id].status = "deleted", ![infra_id].updated_at = now]

\* one "if update.<kind>_config:" block of _apply (lines 557-574)
ApplyConfig(rec, kind, config) ==
    IF ~Truthy(config) THEN rec
    ELSE IF kind \in DOMAIN rec.resources
    THEN [rec EXCEPT !.resources[kind].specs = DictUpdate(@, config.val)]
    ELSE [rec EXCEPT !.includes[kind] = TRUE,
                     !.resources = (kind :> [added |-> "True", specs |-> config.val]) @@ @]

\* one "if update.include_<kind> is not None:" block of _apply (lines 576-581)
ApplyInclude(rec, kind, flag) ==
    IF flag = "None" THEN rec ELSE [rec EXCEPT !.includes[kind] = (flag = "True")]

\* update_infrastructure._apply
Apply(rec, update) ==
    LET r1 == IF Truthy(update.vm_config) /\ "virtual_machine" \in DOMAIN rec.resources
              THEN [rec EXCEPT !.resources["virtual_machine"].specs =
                                   DictUpdate(@, update.vm_config.val)]
              ELSE rec
        r2 == ApplyConfig(r1, "database", update.database_config)
        r3 == ApplyConfig(r2, "load_balancer", update.load_balancer_config)
        r4 == ApplyConfig(r3, "storage", update.storage_config)
        r5 == ApplyInclude(r4, "database", update.include_database)
        r6 == ApplyInclude(r5, "load_balancer", update.include_load_balancer)
    IN ApplyInclude(r6, "storage", update.include_storage)

\* _InfrastructureRepository.update: the store after an update that does not raise
RepoUpdate(store, infra_id, update, now) ==
    [store EXCEPT ![infra_id] = [Apply(@, update) EXCEPT !.updated_at = now]]

\* ------------------------------------------------------------------ inputs
InfraIds == 1..MaxInfra

NoUpdate ==
    [vm_config |-> None, database_config |-> None, load_balancer_config |-> None,
     storage_config |-> None, include_database |-> "None",
     include_load_balancer |-> "None", include_storage |-> "None"]

\* ------------------------------------------ VM endpoints: legacy factories
ProviderEnum == {"aws", "azure", "gcp", "onpremise", "oracle"}

\* the required list of each VirtualMachineFactory.validate_params
RequiredParams ==
    [aws |-> <<"instance_type", "region", "vpc", "ami">>,
     azure |-> <<"size", "resource_group", "image", "vnet">>,
     gcp |-> <<"machine_type", "zone", "base_disk", "project">>,
     onpremise |-> <<"cpu", "ram_gb", "disk_gb", "nic">>,
     oracle |-> <<"compute_shape", "compartment_id", "availability_domain", "subnet_id",
                  "image_id">>]

\* the fields of VMUpdateRequest each factory's update copies into specs
UpdatableSpecs ==
    [aws |-> {"instance_type", "ram_gb", "cpu", "disk_gb"},
     azure |-> {"size", "ram_gb", "cpu", "disk_gb"},
     gcp |-> {"machine_type", "ram_gb", "cpu", "disk_gb"},
     onpremise |-> {"cpu", "ram_gb", "disk_gb"},
     oracle |-> {"cpu", "ram_gb"}]

VMDTO(id, name, provider, status, specs) ==
    [id |-> id, name |-> name, provider |-> provider, status |-> status, specs |-> specs]

\* VirtualMachineFactory.provision: validate_params, then a VMDTO with a fresh id
Provision(provider, name, params, uuid) ==
    LET \* what provision puts before the uuid in the VM's id
        IdPrefix ==
            [aws |-> "aws", azure |-> "azure", gcp |-> "gcp", onpremise |-> "onprem",
             oracle |-> "oracle"]
        required == RequiredParams[provider]
        missing == MissingFields(params, required)
    IN IF missing # <<>> THEN Raise("ValueError", missing)
       ELSE Ok(VMDTO(<<IdPrefix[provider], uuid>>, name, provider, "stopped",
                     [k \in {required[i] : i \in DOMAIN required} |-> params[k]]))

\* truth value of an Optional[str] / Optional[int] field held in a dict of changes
Supplied(changes, k) == k \in DOMAIN changes /\ changes[k] \notin {"", "0"}

\* VirtualMachineFactory.update
FactoryUpdate(vm, changes) ==
    LET copied == {k \in UpdatableSpecs[vm.provider] : Supplied(changes, k)}
    IN [vm EXCEPT !.name = IF Supplied(changes, "name") THEN changes.name ELSE @,
                  !.specs = DictUpdate(@, [k \in copied |-> changes[k]])]

\* VirtualMachineFactory.apply_action
ApplyAction(vm, action) ==
    CASE action = "start" -> Ok([vm EXCEPT !.status = "running"])
      [] action = "stop" -> Ok([vm EXCEPT !.status = "stopped"])
      [] action = "restart" -> Ok([vm EXCEPT !.status = "running"])
      [] OTHER -> Raise("ValueError", <<>>)

\* ------------------------------------------------------------ VMRepository
NoVMs == [i \in {} |-> EmptyDict]

RepoSave(store, vm) == (vm.id :> vm) @@ store

\* VMRepository.get raises KeyError for an id that is not stored
VMMissing(store, vm_id) == vm_id \notin DOMAIN store

VMRepoDelete(store, vm_id) == [i \in DOMAIN store \ {vm_id} |-> store[i]]

\* VMRepository.list: the values in insertion order, i.e. in the order of the uuids
RECURSIVE VMRepoList(_, _)
VMRepoList(store, n) ==
    IF n = 0 THEN <<>>
    ELSE VMRepoList(store, n - 1)
            \o (IF \E i \in DOMAIN store : i[2] = n
                THEN <<store[CHOOSE i \in DOMAIN store : i[2] = n]>> ELSE <<>>)

\* ----------------------------------------------------------------- actions
Result(op, id, status, out) ==
    [op |-> op, id |-> id, status |-> status, out |-> out,
     requested |-> <<>>, built |-> <<>>, audits |-> <<>>, req |-> None]

Init ==
    /\ factories = DefaultFactories
    /\ infra_store = NoRecords
    /\ audit_log = <<>>
    /\ clock = 0
    /\ vms = <<>>
    /\ vm_store = NoVMs
    /\ uuids = 0
    /\ threads = <<>>
    /\ last = Result("init", 0, 0, <<>>)

\* time passes between two calls of datetime.utcnow()
Tick ==
    /\ clock < MaxClock
    /\ clock' = clock + 1
    /\ UNCHANGED <<threads, vm_store, uuids, vms, factories, infra_store, audit_log, last>>

\* a handler that stores the record as soon as the VM exists, before the other kinds
CreateInfrastructure_StoresEarly ==
    \E req \in CreateRequests, id \in InfraIds :
        \E o \in {CreateInfrastructureOutcome(factories, req, id, clock)} :
           /\ id = Cardinality(DOMAIN infra_store) + 1
           /\ Len(audit_log) + Len(o.audits) <= MaxLog
           /\ infra_store' = IF o.built # <<>> /\ RecordValid(req)
                              THEN RepoAdd(infra_store,
                                           InfrastructureRecord(id, req, EmptyDict, clock))
                              ELSE infra_store
           /\ audit_log' = audit_log \o o.audits
           /\ last' = [Result("create", IF o.add THEN id ELSE 0, o.status,
                              IF o.add THEN <<o.record>> ELSE <<>>)
                         EXCEPT !.requested = RequestedKinds(req), !.built = o.built,
                                !.audits = o.audits]
           /\ UNCHANGED <<threads, vm_store, uuids, vms, factories, clock>>

\* POST /infrastructure/create
CreateInfrastructure ==
    \E req \in CreateRequests, id \in InfraIds :
        \E o \in {CreateInfrastructureOutcome(factories, req, id, clock)} :
           /\ id = Cardinality(DOMAIN infra_store) + 1
           /\ Len(audit_log) + Len(o.audits) <= MaxLog
           /\ infra_store' = IF o.add THEN RepoAdd(infra_store, o.record) ELSE infra_store
           /\ audit_log' = audit_log \o o.audits
           /\ last' = [Result("create", IF o.add THEN id ELSE 0, o.status,
                              IF o.add THEN <<o.record>> ELSE <<>>)
                         EXCEPT !.requested = RequestedKinds(req), !.built = o.built,
                                !.audits = o.audits]
           /\ UNCHANGED <<threads, vm_store, uuids, vms, factories, clock>>

\* GET /infrastructure
ListInfrastructures ==
    LET \* _InfrastructureRepository.list: the active records in insertion order
        RepoList(store) == ActiveFrom(store, 1)
    IN
        /\ last' = Result("list", 0, 200, RepoList(infra_store))
        /\ UNCHANGED <<threads, vm_store, uuids, vms, factories, infra_store, audit_log, clock>>

\* a handler that returns whatever _infra_repo.get finds, deleted or not
GetInfrastructure_Raw ==
    \E id \in InfraIds :
        /\ last' = IF id \notin DOMAIN infra_store THEN Result("get", id, 404, <<>>)
                   ELSE Result("get", id, 200, <<infra_store[id]>>)
        /\ UNCHANGED <<threads, vm_store, uuids, vms, factories, infra_store, audit_log, clock>>

\* GET /infrastructure/{infrastructure_id}
GetInfrastructure ==
    \E id \in InfraIds :
        /\ last' = IF Missing(infra_store, id) THEN Result("get", id, 404, <<>>)
                   ELSE Result("get", id, 200, <<infra_store[id]>>)
        /\ UNCHANGED <<threads, vm_store, uuids, vms, factories, infra_store, audit_log, clock>>

\* PUT /infrastructure/{infrastructure_id}
UpdateInfrastructure ==
    LET UpdateRequests ==
            { [NoUpdate EXCEPT !.vm_config = Some([instance_type |-> "t3.small"]),
                               !.database_config = Some([engine |-> "postgres"])],
              [NoUpdate EXCEPT !.vm_config = Some([instance_type |-> "t3.small"]),
                               !.database_config = Some([engine |-> "postgres"]),
                               !.include_database = "False"],
              [NoUpdate EXCEPT !.database_config = Some(EmptyDict)],
              [NoUpdate EXCEPT !.include_database = "False"] }
    IN
        \E id \in InfraIds, update \in UpdateRequests :
            /\ infra_store' = IF Missing(infra_store, id) THEN infra_store
                              ELSE RepoUpdate(infra_store, id, update, clock)
            /\ last' = [(IF Missing(infra_store, id) THEN Result("update", id, 404, <<>>)
                         ELSE Result("update", id, 200, <<infra_store'[id]>>))
                          EXCEPT !.req = update]
            /\ UNCHANGED <<threads, vm_store, uuids, vms, factories, audit_log, clock>>

\* DELETE /infrastructure/{infrastructure_id}
DeleteInfrastructure ==
    \E id \in InfraIds :
        /\ infra_store' = IF Missing(infra_store, id) THEN infra_store
                          ELSE RepoDelete(infra_store, id, clock)
        /\ last' = Result("delete", id, IF Missing(infra_store, id) THEN 404 ELSE 200, <<>>)
        /\ UNCHANGED <<threads, vm_store, uuids, vms, factories, audit_log, clock>>

Next ==
    \/ Tick
    \/ CreateInfrastructure
    \/ ListInfrastructures
    \/ GetInfrastructure
    \/ UpdateInfrastructure
    \/ DeleteInfrastructure

Spec == Init /\ [][Next]_vars

\* ------------------------------------------------- VirtualMachine products
\* the result of a method call on a VM object: the object afterwards, or the error
Done(vm) == [ok |-> TRUE, err |-> "", vm |-> vm]

Fails(vm, err) == [ok |-> FALSE, err |-> err, vm |-> vm]

GuardedClasses == {"AWS::EC2::Instance", "Microsoft.Compute/virtualMachines"}

\* EC2Instance.start, AzureVirtualMachine.start (guarded by the status);
\* OracleComputeInstance.start, OnPremiseVirtualMachine.start (unconditional)
Start(vm) ==
    IF vm.type \in GuardedClasses
    THEN IF vm.status = "stopped" THEN Done([vm EXCEPT !.status = "running"])
         ELSE Fails(vm, "ValueError")
    ELSE Done([vm EXCEPT !.status = "running"])

\* EC2Instance.stop, AzureVirtualMachine.stop; OracleComputeInstance.stop,
\* OnPremiseVirtualMachine.stop
Stop(vm) ==
    IF vm.type \in GuardedClasses
    THEN IF vm.status = "running" THEN Done([vm EXCEPT !.status = "stopped"])
         ELSE Fails(vm, "ValueError")
    ELSE Done([vm EXCEPT !.status = "stopped"])

\* EC2Instance.restart, AzureVirtualMachine.restart; OracleComputeInstance.restart,
\* OnPremiseVirtualMachine.restart
Restart(vm) ==
    IF vm.type \in GuardedClasses
    THEN IF vm.status = "running" THEN Done([vm EXCEPT !.status = "running"])
         ELSE Fails(vm, "ValueError")
    ELSE Done([vm EXCEPT !.status = "running"])

\* the attribute each class's resize assigns; the on-premise resize assigns none
SizeField(type) ==
    CASE type = "AWS::EC2::Instance" -> "instance_type"
      [] type = "Microsoft.Compute/virtualMachines" -> "vm_size"
      [] type = "oracle.compute.instance" -> "compute_shape"
      [] OTHER -> ""

\* EC2Instance.resize, AzureVirtualMachine.resize, OracleComputeInstance.resize,
\* OnPremiseVirtualMachine.resize
Resize(vm, new_size) ==
    IF SizeField(vm.type) = "" THEN Done(vm)
    ELSE Done([vm EXCEPT !.specs[SizeField(vm.type)] = new_size])

\* ---------------------------------------------------- clients of a factory
\* configs with every field the provider's create_virtual_machine requires
SampleVmConfig ==
    [aws |-> [instance_type |-> "t3.micro", ami |-> "ami-0abcdef1234567890",
              vpc_id |-> "vpc-12345", region |-> "us-east-1"],
     azure |-> [vm_size |-> "Standard_B1s", image |-> "UbuntuLTS",
                resource_group |-> "my-rg", region |-> "eastus"],
     gcp |-> [machine_type |-> "e2-micro", zone |-> "us-central1-a"],
     oracle |-> [compute_shape |-> "VM.Standard2.1", compartment_id |-> "ocid1.compartment",
                 availability_domain |-> "AD-1", subnet_id |-> "ocid1.subnet",
                 image_id |-> "ocid1.image"],
     onprem |-> [cpu |-> "2", ram_gb |-> "4", disk_gb |-> "50", nic |-> "eth0"]]

ProductResult(op, id, r, pre) ==
    [op |-> op, id |-> id, ok |-> r.ok, err |-> r.err, pre |-> pre, arg |-> ""]

InitProducts ==
    /\ factories = DefaultFactories
    /\ infra_store = NoRecords
    /\ audit_log = <<>>
    /\ clock = 0
    /\ vms = <<>>
    /\ vm_store = NoVMs
    /\ uuids = 0
    /\ threads = <<>>
    /\ last = [op |-> "init", id |-> 0, ok |-> TRUE, err |-> "", pre |-> "", arg |-> ""]

\* factory.create_virtual_machine(name, config), and the config-only call
\* factory.create_virtual_machine(config) the VM service makes
CreateVirtualMachine ==
    \E p \in CloudProvider, with_name \in BOOLEAN :
        LET args == IF with_name THEN <<"web-vm", SampleVmConfig[p]>> ELSE <<SampleVmConfig[p]>>
            r == FactoryCreate(factories[p], "virtual_machine", args)
        IN /\ Len(vms) < MaxVMs
           /\ vms' = IF r.ok THEN Append(vms, r.res) ELSE vms
           /\ last' = ProductResult("create", IF r.ok THEN Len(vms) + 1 ELSE 0, r, "")
           /\ UNCHANGED <<threads, vm_store, uuids, factories, infra_store, audit_log, clock>>

\* examples/abstract_factory_demo.py: aws_vm.status = "stopped", azure_vm.status = "stopped"
SimulateStopped ==
    \E i \in DOMAIN vms :
        /\ vms[i].type \in GuardedClasses
        /\ vms' = [vms EXCEPT ![i].status = "stopped"]
        /\ last' = [op |-> "set_status", id |-> i, ok |-> TRUE, err |-> "",
                    pre |-> vms[i].status, arg |-> "stopped"]
        /\ UNCHANGED <<threads, vm_store, uuids, factories, infra_store, audit_log, clock>>

Call(op, i, r) ==
    /\ vms' = [vms EXCEPT ![i] = r.vm]
    /\ last' = ProductResult(op, i, r, vms[i].status)
    /\ UNCHANGED <<threads, vm_store, uuids, factories, infra_store, audit_log, clock>>

VMStart == \E i \in DOMAIN vms : Call("start", i, Start(vms[i]))

VMStop == \E i \in DOMAIN vms : Call("stop", i, Stop(vms[i]))

VMRestart == \E i \in DOMAIN vms : Call("restart", i, Restart(vms[i]))

VMResize ==
    LET Sizes == {"t3.small", "Standard_B2s"}
    IN
        \E i \in DOMAIN vms, size \in Sizes :
            \E r \in {Resize(vms[i], size)} :
                /\ vms' = [vms EXCEPT ![i] = r.vm]
                /\ last' = [ProductResult("resize", i, r, vms[i].status) EXCEPT !.arg = size]
                /\ UNCHANGED <<threads, vm_store, uuids, factories, infra_store, audit_log, clock>>

NextProducts ==
    \/ CreateVirtualMachine
    \/ SimulateStopped
    \/ VMStart
    \/ VMStop
    \/ VMRestart
    \/ VMResize

SpecProducts == InitProducts /\ [][NextProducts]_vars

\* ----------------------------------------- VM endpoints: service and router
\* an id no VM ever had
UnknownVmId == <<"aws", 0>>

RequestedVmIds(store) == DOMAIN store \cup {UnknownVmId}

\* the entry a router writes when the service raised KeyError
NotFoundAudit(now, actor, action, vm_id) ==
    AuditEntry(now, actor, action, vm_id, "unknown", FALSE, [error |-> "not_found"])

\* POST /vm/create
create_vm ==
    LET \* the params of a request after its pydantic model accepted it
        SampleParams ==
            [aws |-> [instance_type |-> "t2.micro", region |-> "us-east-1", vpc |-> "vpc-1",
                      ami |-> "ami-1"],
             azure |-> [size |-> "Standard_B1s", resource_group |-> "rg", image |-> "ubuntu",
                        vnet |-> "vnet-1"],
             gcp |-> [machine_type |-> "e2-micro", zone |-> "us-central1-a",
                      base_disk |-> "disk-1", project |-> "p1"],
             onpremise |-> [cpu |-> "2", ram_gb |-> "4", disk_gb |-> "50", nic |-> "eth0"],
             oracle |-> [compute_shape |-> "VM.Standard2.1", compartment_id |-> "c1",
                         availability_domain |-> "AD-1", subnet_id |-> "s1",
                         image_id |-> "img-1"]]
        VMCreateRequests ==
            {[name |-> "web", requested_by |-> "system", provider |-> p,
              params |-> SampleParams[p]] : p \in ProviderEnum}
    IN
        \E payload \in VMCreateRequests :
            \E r \in {Provision(payload.provider, payload.name, payload.params, uuids + 1)} :
                /\ uuids < MaxVMs
                /\ Len(audit_log) <= MaxLog
                /\ uuids' = IF r.ok THEN uuids + 1 ELSE uuids
                /\ vm_store' = IF r.ok THEN RepoSave(vm_store, r.res) ELSE vm_store
                /\ audit_log' = Append(audit_log,
                      IF r.ok
                      THEN AuditEntry(clock, payload.requested_by, "create", r.res.id,
                                      r.res.provider, TRUE, [name |-> r.res.name])
                      ELSE AuditEntry(clock, payload.requested_by, "create", "n/a",
                                      payload.provider, FALSE, [error |-> "Missing params"]))
                /\ last' = [(IF r.ok THEN Result("create", r.res.id, 200, <<r.res>>)
                             ELSE Result("create", UnknownVmId, 400, <<>>))
                              EXCEPT !.req = payload]
                /\ UNCHANGED <<threads, vms, factories, infra_store, clock>>

\* PUT /vm/{vm_id}
update_vm ==
    LET VMUpdateRequests ==
            { [name |-> "db"], [name |-> "api"], [instance_type |-> "t3.small", cpu |-> "4"],
              [cpu |-> "0"] }
    IN
        \E vm_id \in RequestedVmIds(vm_store), changes \in VMUpdateRequests :
            /\ Len(audit_log) <= MaxLog
            /\ IF VMMissing(vm_store, vm_id)
               THEN /\ vm_store' = vm_store
                    /\ audit_log' = Append(audit_log,
                                           NotFoundAudit(clock, "system", "update", vm_id))
                    /\ last' = [Result("update", vm_id, 404, <<>>) EXCEPT !.req = changes]
               ELSE \E vm \in {FactoryUpdate(vm_store[vm_id], changes)} :
                    /\ vm_store' = RepoSave(vm_store, vm)
                    /\ audit_log' = Append(audit_log,
                          AuditEntry(clock, "system", "update", vm.id, vm.provider, TRUE,
                                     changes))
                    /\ last' = [Result("update", vm_id, 200, <<vm>>) EXCEPT !.req = changes]
            /\ UNCHANGED <<threads, uuids, vms, factories, infra_store, clock>>

\* DELETE /vm/{vm_id}
delete_vm ==
    \E vm_id \in RequestedVmIds(vm_store) :
        /\ Len(audit_log) <= MaxLog
        /\ IF VMMissing(vm_store, vm_id)
           THEN /\ vm_store' = vm_store
                /\ audit_log' = Append(audit_log,
                                       NotFoundAudit(clock, "system", "delete", vm_id))
                /\ last' = Result("delete", vm_id, 404, <<>>)
           ELSE /\ vm_store' = VMRepoDelete(vm_store, vm_id)
                /\ audit_log' = Append(audit_log,
                      AuditEntry(clock, "system", "delete", vm_id,
                                 vm_store[vm_id].provider, TRUE, None))
                /\ last' = Result("delete", vm_id, 200, <<>>)
        /\ UNCHANGED <<threads, uuids, vms, factories, infra_store, clock>>

\* POST /vm/{vm_id}/action
action_vm ==
    LET VMActions == {"start", "stop", "restart"}
    IN
        \E vm_id \in RequestedVmIds(vm_store), action \in VMActions :
            /\ Len(audit_log) <= MaxLog
            /\ IF VMMissing(vm_store, vm_id)
               THEN /\ vm_store' = vm_store
                    /\ audit_log' = Append(audit_log,
                                           NotFoundAudit(clock, "system", action, vm_id))
                    /\ last' = [Result(action, vm_id, 404, <<>>) EXCEPT !.req = action]
               ELSE \E r \in {ApplyAction(vm_store[vm_id], action)} :
                    /\ vm_store' = IF r.ok THEN RepoSave(vm_store, r.res) ELSE vm_store
                    /\ audit_log' = Append(audit_log,
                          IF r.ok
                          THEN AuditEntry(clock, "system", action, vm_id, r.res.provider,
                                          TRUE, None)
                          ELSE AuditEntry(clock, "system", action, vm_id, "unknown", FALSE,
                                          [error |-> "Invalid action"]))
                    /\ last' = [Result(action, vm_id, IF r.ok THEN 200 ELSE 400,
                                       IF r.ok THEN <<r.res>> ELSE <<>>)
                                  EXCEPT !.req = action]
            /\ UNCHANGED <<threads, uuids, vms, factories, infra_store, clock>>

\* GET /vm/{vm_id}
get_vm ==
    \E vm_id \in RequestedVmIds(vm_store) :
        /\ last' = IF VMMissing(vm_store, vm_id) THEN Result("get", vm_id, 404, <<>>)
                   ELSE Result("get", vm_id, 200, <<vm_store[vm_id]>>)
        /\ UNCHANGED <<threads, vm_store, uuids, vms, factories, infra_store, audit_log, clock>>

\* GET /vm/
list_vms ==
    /\ last' = Result("list", UnknownVmId, 200, VMRepoList(vm_store, uuids))
    /\ UNCHANGED <<threads, vm_store, uuids, vms, factories, infra_store, audit_log, clock>>

NextVM ==
    \/ Tick
    \/ create_vm
    \/ update_vm
    \/ delete_vm
    \/ action_vm
    \/ get_vm
    \/ list_vms

SpecVM == Init /\ [][NextVM]_vars

\* ------------------------------------------------- clients of the registry
\* keys handed to the registry: the enum members and one value outside the enum
RegistryKeys == CloudProvider \cup {"digitalocean"}

RegistryResult(op, key, class, r) ==
    [op |-> op, key |-> key, class |-> class, ok |-> r.ok, err |-> r.err, res |-> r.res]

\* register_custom_factory(provider, factory_class)
register_custom_factory ==
    LET \* classes a client registers: a built-in one and one of its own
        RegisteredClasses == {"OracleCloudFactory", "CustomCloudFactory"}
    IN
        \E provider \in RegistryKeys, class \in RegisteredClasses :
            /\ factories' = RegisterFactory(factories, provider, class)
            /\ last' = RegistryResult("register", provider, class, Ok(""))
            /\ UNCHANGED <<threads, vm_store, uuids, vms, infra_store, audit_log, clock>>

\* create_cloud_factory(provider)
create_cloud_factory ==
    \E provider \in RegistryKeys :
        /\ last' = RegistryResult("resolve", provider, "",
                                  ProviderGetFactory(factories, provider))
        /\ UNCHANGED <<threads, vm_store, uuids, vms, factories, infra_store, audit_log, clock>>

\* is_provider_supported(provider_str)
is_provider_supported ==
    \E provider \in RegistryKeys :
        /\ last' = RegistryResult("supported", provider, "",
                      Ok(IF provider \in CloudProvider
                             /\ IsProviderSupported(factories, provider)
                         THEN "True" ELSE "False"))
        /\ UNCHANGED <<threads, vm_store, uuids, vms, factories, infra_store, audit_log, clock>>

NextRegistry ==
    \/ register_custom_factory
    \/ create_cloud_factory
    \/ is_provider_supported

SpecRegistry == Init /\ [][NextRegistry]_vars

\* ------------------------------------------ clients of the factories: create
\* the required_fields of each create_<kind> / _validate_<kind>_config
RequiredFields ==
    [aws |-> [virtual_machine |-> <<"instance_type", "ami", "vpc_id", "region">>,
              database |-> <<"engine", "instance_class", "allocated_storage", "region">>,
              load_balancer |-> <<"vpc_id", "region">>,
              storage |-> <<"region">>],
     azure |-> [virtual_machine |-> <<"vm_size", "image", "resource_group", "region">>,
                database |-> <<"tier", "server_name", "resource_group", "region">>,
                load_balancer |-> <<"resource_group", "region">>,
                storage |-> <<"region">>],
     gcp |-> [virtual_machine |-> <<"machine_type">>,
              database |-> <<"engine">>,
              load_balancer |-> <<>>,
              storage |-> <<>>],
     oracle |-> [virtual_machine |-> <<"compute_shape", "compartment_id",
                                       "availability_domain", "subnet_id", "image_id">>,
                 database |-> <<"workload_type", "compartment_id">>,
                 load_balancer |-> <<"compartment_id">>,
                 storage |-> <<"namespace", "compartment_id">>],
     onprem |-> [virtual_machine |-> <<"cpu", "ram_gb", "disk_gb", "nic">>,
                 database |-> <<"engine">>,
                 load_balancer |-> <<>>,
                 storage |-> <<"storage_type">>]]

\* configs with every required field, each with a value the factory allows
SampleConfig ==
    [aws |-> [virtual_machine |-> SampleVmConfig["aws"],
              database |-> [engine |-> "postgres", instance_class |-> "db.t3.micro",
                            allocated_storage |-> "20", region |-> "us-east-1"],
              load_balancer |-> [vpc_id |-> "vpc-12345", region |-> "us-east-1"],
              storage |-> [region |-> "us-east-1"]],
     azure |-> [virtual_machine |-> SampleVmConfig["azure"],
                database |-> [tier |-> "Basic", server_name |-> "sql-1",
                              resource_group |-> "my-rg", region |-> "eastus"],
                load_balancer |-> [resource_group |-> "my-rg", region |-> "eastus"],
                storage |-> [region |-> "eastus"]],
     gcp |-> [virtual_machine |-> SampleVmConfig["gcp"],
              database |-> [engine |-> "postgres"],
              load_balancer |-> EmptyDict,
              storage |-> EmptyDict],
     oracle |-> [virtual_machine |-> SampleVmConfig["oracle"],
                 database |-> [workload_type |-> "OLTP",
                               compartment_id |-> "ocid1.compartment"],
                 load_balancer |-> [compartment_id |-> "ocid1.compartment"],
                 storage |-> [namespace |-> "ns", compartment_id |-> "ocid1.compartment"]],
     onprem |-> [virtual_machine |-> SampleVmConfig["onprem"],
                 database |-> [engine |-> "postgresql"],
                 load_balancer |-> EmptyDict,
                 storage |-> [storage_type |-> "nfs"]]]

\* what a resource_id starts with, per kind of resource
ResourceIdPrefixes ==
    [virtual_machine |-> {"i-", "vm-", "oci-vm-", "onprem-vm-"},
     database |-> {"db-", "sqldb-", "oci-db-", "onprem-db-"},
     load_balancer |-> {"alb-", "lb-", "oci-lb-", "onprem-lb-"},
     storage |-> {"s3-", "blob-", "oci-storage-", "onprem-storage-"}]

\* factory = create_cloud_factory(provider); factory.create_<kind>(name, config), or
\* factory.create_<kind>(config) as OnPremiseCloudFactory declares it
CreateResource ==
    LET \* the config without some of its fields
        Without(config, dropped) == [k \in DOMAIN config \ dropped |-> config[k]]
        FieldsOf(required) == {required[i] : i \in DOMAIN required}
        \* the config as the caller sends it, or with the region the caller names
        WithRegion(config, region) ==
            IF region = "None" THEN config ELSE DictPut(config, "region", region)
    IN
        \E p \in CloudProvider, kind \in DOMAIN ResourceIdPrefixes, with_name \in BOOLEAN :
            \E dropped \in SUBSET FieldsOf(RequiredFields[p][kind]),
               region \in {"None", "mars-1", "eastus"} :
                \E config \in {WithRegion(Without(SampleConfig[p][kind], dropped), region)} :
                    \E r \in {FactoryCreate(factories[p], kind,
                                            IF with_name THEN <<"web", config>>
                                            ELSE <<config>>)} :
                        /\ last' = [op |-> "create", provider |-> p, kind |-> kind,
                                    with_name |-> with_name, name |-> "web",
                                    config |-> config, ok |-> r.ok, err |-> r.err,
                                    missing |-> r.missing, res |-> r.res]
                        /\ UNCHANGED <<threads, vm_store, uuids, vms, factories, infra_store,
                                       audit_log, clock>>

\* region values a caller may pass: every listed region, and values no factory lists
SampleRegions ==
    UNION {SupportedRegions[p] : p \in DOMAIN SupportedRegions}
        \cup {"datacenter-1", "mars-1", "US-EAST-1", "US", ""}

\* create_cloud_factory(provider).validate_region(region)
validate_region ==
    \E p \in CloudProvider, region \in SampleRegions :
        /\ last' = [op |-> "validate_region", provider |-> p, kind |-> "",
                    with_name |-> FALSE, name |-> "", config |-> [region |-> region],
                    ok |-> FactoryValidateRegion(factories[p], region), err |-> "",
                    missing |-> <<>>, res |-> EmptyDict]
        /\ UNCHANGED <<threads, vm_store, uuids, vms, factories, infra_store, audit_log, clock>>

NextFactories ==
    \/ CreateResource
    \/ validate_region

SpecFactories == Init /\ [][NextFactories]_vars

\* -------------------------------------------------------------- LogService
\* In this part a str is the sequence of its characters, so that lower(), "in" and the
\* comparison of two strings are computed; an Optional[str] is a record [some, val].
NoStr == [some |-> FALSE, val |-> <<>>]

SomeStr(s) == [some |-> TRUE, val |-> s]

StrLower(s) ==
    LET \* str.lower(), on the letters the values below contain
        LowerChar(c) ==
            CASE c = "A" -> "a"
              [] c = "I" -> "i"
              [] c = "L" -> "l"
              [] c = "M" -> "m"
              [] c = "S" -> "s"
              [] c = "W" -> "w"
              [] OTHER -> c
    IN
        [i \in DOMAIN s |-> LowerChar(s[i])]

\* needle in hay
Contains(needle, hay) ==
    \E i \in 1..(Len(hay) - Len(needle) + 1) : SubSeq(hay, i, i + Len(needle) - 1) = needle

\* ord() of the characters of a timestamp
Ord(c) ==
    CASE c = "." -> 46
      [] c = "0" -> 48
      [] c = "1" -> 49
      [] c = "2" -> 50
      [] c = "5" -> 53
      [] c = "Z" -> 90

\* a < b on str: the first differing character decides, a proper prefix is smaller
RECURSIVE StrLess(_, _)
StrLess(a, b) ==
    IF b = <<>> THEN FALSE
    ELSE IF a = <<>> THEN TRUE
    ELSE IF a[1] = b[1] THEN StrLess(Tail(a), Tail(b))
    ELSE Ord(a[1]) < Ord(b[1])

\* AuditLogEntry
AuditLogEntry(timestamp, actor, action, vm_id, provider, success) ==
    [timestamp |-> timestamp, actor |-> actor, action |-> action, vm_id |-> vm_id,
     provider |-> provider, success |-> success, details |-> None]

\* a line of audit.log: the JSON of an entry, text that is not JSON, JSON that is not
\* an entry, or nothing but white space
EntryLine(e) == [kind |-> "entry", entry |-> e]

\* json.loads(line) and AuditLogEntry(**log_data)
ParseLine(line) ==
    CASE line.kind = "entry" -> Ok(line.entry)
      [] line.kind = "text" -> Raise("JSONDecodeError", <<>>)
      [] line.kind = "json" -> Raise("ValidationError", <<>>)

\* the read loop of get_logs: a line that raises anything is skipped
RECURSIVE ReadForLogs(_)
ReadForLogs(file) ==
    IF file = <<>> THEN <<>>
    ELSE IF Head(file).kind = "blank" \/ ~ParseLine(Head(file)).ok
         THEN ReadForLogs(Tail(file))
         ELSE <<ParseLine(Head(file)).res>> \o ReadForLogs(Tail(file))

\* the read loop of get_stats: only json.JSONDecodeError is caught, so the error of
\* AuditLogEntry(**log_data) leaves the method
RECURSIVE ReadForStats(_)
ReadForStats(file) ==
    IF file = <<>> THEN Ok(<<>>)
    ELSE IF Head(file).kind = "blank" \/ ParseLine(Head(file)).err = "JSONDecodeError"
         THEN ReadForStats(Tail(file))
         ELSE IF ~ParseLine(Head(file)).ok THEN ParseLine(Head(file))
         ELSE IF ~ReadForStats(Tail(file)).ok THEN ReadForStats(Tail(file))
         ELSE Ok(<<ParseLine(Head(file)).res>> \o ReadForStats(Tail(file)).res)

\* LogsQuery
LogsQuery(actor, action, provider, success, vm_id, page, page_size) ==
    [actor |-> actor, action |-> action, provider |-> provider, success |-> success,
     vm_id |-> vm_id, page |-> page, page_size |-> page_size]

\* one step of _apply_filters: "if query.f: keep log if query.f.lower() in log.f.lower()"
KeepsStr(filter, value) ==
    (filter.some /\ filter.val # <<>>) => Contains(StrLower(filter.val), StrLower(value))

\* _apply_filters with "if query.success:" in place of "if query.success is not None:"
ApplyFilters_TruthySuccess(logs, query) ==
    SelectSeq(logs, LAMBDA log :
        /\ KeepsStr(query.actor, log.actor)
        /\ KeepsStr(query.action, log.action)
        /\ KeepsStr(query.provider, log.provider)
        /\ (query.success = "True" => log.success)
        /\ KeepsStr(query.vm_id, log.vm_id))

\* LogService._apply_filters
ApplyFilters(logs, query) ==
    SelectSeq(
      SelectSeq(
        SelectSeq(
          SelectSeq(
            SelectSeq(logs, LAMBDA log : KeepsStr(query.actor, log.actor)),
            LAMBDA log : KeepsStr(query.action, log.action)),
          LAMBDA log : KeepsStr(query.provider, log.provider)),
        LAMBDA log : query.success # "None" => (log.success = (query.success = "True"))),
      LAMBDA log : KeepsStr(query.vm_id, log.vm_id))

\* where list.sort(key=timestamp, reverse=True) leaves an element relative to the ones
\* before it: after every element whose timestamp is not smaller
RECURSIVE InsertDesc(_, _)
InsertDesc(sorted, log) ==
    IF sorted = <<>> THEN <<log>>
    ELSE IF StrLess(Head(sorted).timestamp, log.timestamp) THEN <<log>> \o sorted
    ELSE <<Head(sorted)>> \o InsertDesc(Tail(sorted), log)

\* a sort that puts the smallest timestamp first
RECURSIVE SortDesc_Ascending(_)
SortDesc_Ascending(logs) ==
    IF logs = <<>> THEN <<>>
    ELSE LET rest == SortDesc_Ascending(SubSeq(logs, 1, Len(logs) - 1))
             log == logs[Len(logs)]
             before == SelectSeq(rest, LAMBDA x : ~StrLess(log.timestamp, x.timestamp))
             after == SelectSeq(rest, LAMBDA x : StrLess(log.timestamp, x.timestamp))
         IN before \o <<log>> \o after

\* filtered_logs.sort(key=lambda x: x.timestamp, reverse=True): stable, by the order of
\* the timestamp strings
RECURSIVE SortDesc(_)
SortDesc(logs) ==
    IF logs = <<>> THEN <<>>
    ELSE InsertDesc(SortDesc(SubSeq(logs, 1, Len(logs) - 1)), logs[Len(logs)])

\* a slice that starts at page * page_size
Paginate_FromNextPage(logs, page, page_size) ==
    SubSeq(logs, page * page_size + 1,
           IF (page + 1) * page_size < Len(logs) THEN (page + 1) * page_size ELSE Len(logs))

\* filtered_logs[start_idx:end_idx] with start_idx = (page - 1) * page_size
Paginate(logs, page, page_size) ==
    SubSeq(logs, (page - 1) * page_size + 1,
           IF page * page_size < Len(logs) THEN page * page_size ELSE Len(logs))

\* LogService.get_logs: (paginated_logs, total)
GetLogs(file, query) ==
    LET filtered == SortDesc(ApplyFilters(ReadForLogs(file), query))
    IN [logs |-> Paginate(filtered, query.page, query.page_size), total |-> Len(filtered)]

\* how many elements of a list satisfy "field = value"
CountBy(logs, field, value) == Cardinality({i \in DOMAIN logs : logs[i][field] = value})

\* LogService.get_stats: the dict it returns, or the error that leaves it
GetStats(file) ==
    LET read == ReadForStats(file)
        all_logs == read.res
    IN IF ~read.ok THEN read
       ELSE Ok([total_operations |-> Len(all_logs),
                successful_operations |-> CountBy(all_logs, "success", TRUE),
                failed_operations |-> Len(all_logs) - CountBy(all_logs, "success", TRUE),
                providers |-> [p \in {all_logs[i].provider : i \in DOMAIN all_logs} |->
                                  CountBy(all_logs, "provider", p)],
                actions |-> [a \in {all_logs[i].action : i \in DOMAIN all_logs} |->
                                CountBy(all_logs, "action", a)]])

\* ---------------------------------------------------- readers of audit.log
\* entries in the file: two with the same timestamp, one later
SampleEntries ==
    { AuditLogEntry(<<"1", ".", "5", "Z">>, <<"A", "l">>, <<"c", "r", "e", "a", "t", "e">>,
                    <<"i", "-", "1">>, <<"A", "W", "S">>, TRUE),
      AuditLogEntry(<<"1", ".", "5", "Z">>, <<"a", "l">>, <<"s", "t", "a", "r", "t">>,
                    <<"v", "m", "-", "2">>, <<"a", "z", "u", "r", "e">>, FALSE),
      AuditLogEntry(<<"2", ".", "0", "Z">>, <<"b", "o", "b">>,
                    <<"c", "r", "e", "a", "t", "e">>, <<"i", "-", "3">>,
                    <<"a", "w", "s">>, FALSE) }

LogLines ==
    LET TextLine == [kind |-> "text", entry |-> EmptyDict]
        JsonLine == [kind |-> "json", entry |-> EmptyDict]
        BlankLine == [kind |-> "blank", entry |-> EmptyDict]
    IN
        {EntryLine(e) : e \in SampleEntries} \cup {TextLine, JsonLine, BlankLine}

RECURSIVE LogFilesOfLength(_)
LogFilesOfLength(n) ==
    IF n = 0 THEN {<<>>}
    ELSE {Append(f, l) : f \in LogFilesOfLength(n - 1), l \in LogLines}

\* the filters a client sends: each one absent, or a fragment in another case than
\* the field it is compared with
LogFilters ==
    LET OptionalBool == {"None", "True", "False"}
    IN
        [actor : {NoStr, SomeStr(<<"A", "L">>)},
         action : {NoStr, SomeStr(<<"r", "e", "a", "t">>)},
         provider : {NoStr, SomeStr(<<"a", "w">>)},
         success : OptionalBool,
         vm_id : {NoStr, SomeStr(<<"M", "-", "2">>)}]

LogsResult(op, filter, page, page_size) ==
    [op |-> op, filter |-> filter, page |-> page, page_size |-> page_size,
     ok |-> TRUE, logs |-> <<>>, total |-> 0, seen |-> <<>>, stats |-> EmptyDict]

\* a file on disk, and a client that has chosen its filter and page size
InitLogs ==
    LET LogFiles == UNION {LogFilesOfLength(n) : n \in 0..MaxLines}
    IN
        /\ factories = DefaultFactories
        /\ infra_store = NoRecords
        /\ audit_log \in LogFiles
        /\ clock = 0
        /\ vms = <<>>
        /\ vm_store = NoVMs
        /\ uuids = 0
        /\ threads = <<>>
        /\ \E filter \in LogFilters, page_size \in 1..MaxPageSize :
               last = LogsResult("init", filter, 0, page_size)

\* log_service.get_logs(query) for the next page, until a page comes back empty
get_logs ==
    /\ last.op \in {"init", "get_stats"} \/ (last.op = "get_logs" /\ last.logs # <<>>)
    /\ \E r \in {GetLogs(audit_log,
                         LogsQuery(last.filter.actor, last.filter.action,
                                   last.filter.provider, last.filter.success,
                                   last.filter.vm_id, last.page + 1, last.page_size))} :
           last' = [last EXCEPT !.op = "get_logs", !.page = @ + 1, !.ok = TRUE,
                                !.logs = r.logs, !.total = r.total,
                                !.seen = @ \o r.logs, !.stats = EmptyDict]
    /\ UNCHANGED <<threads, vm_store, uuids, vms, factories, infra_store, audit_log, clock>>

\* log_service.get_stats()
get_stats ==
    /\ last.op = "init"
    /\ \E r \in {GetStats(audit_log)} :
           last' = [last EXCEPT !.op = "get_stats", !.ok = r.ok, !.stats = r.res]
    /\ UNCHANGED <<threads, vm_store, uuids, vms, factories, infra_store, audit_log, clock>>

NextLogs ==
    \/ get_logs
    \/ get_stats

SpecLogs == InitLogs /\ [][NextLogs]_vars

\* --------------------------------- infrastructure endpoints on worker threads
\* The handlers are plain "def" functions, which the server runs on the threads of a
\* pool; no lock guards _infra_repo, so the steps of two requests interleave between
\* statements. A thread holds one request: its position (pc, and step inside _apply),
\* the record as it was when the request found it (before), and the response.
IdleThread ==
    [op |-> "none", pc |-> "idle", step |-> 0, id |-> 0, update |-> NoUpdate,
     status |-> 0, out |-> <<>>, before |-> <<>>]

\* the k-th "if" block of update_infrastructure._apply, on the record in the store
ApplyStep(rec, update, k) ==
    CASE k = 1 -> IF Truthy(update.vm_config) /\ "virtual_machine" \in DOMAIN rec.resources
                  THEN [rec EXCEPT !.resources["virtual_machine"].specs =
                                       DictUpdate(@, update.vm_config.val)]
                  ELSE rec
      [] k = 2 -> ApplyConfig(rec, "database", update.database_config)
      [] k = 3 -> ApplyConfig(rec, "load_balancer", update.load_balancer_config)
      [] k = 4 -> ApplyConfig(rec, "storage", update.storage_config)
      [] k = 5 -> ApplyInclude(rec, "database", update.include_database)
      [] k = 6 -> ApplyInclude(rec, "load_balancer", update.include_load_balancer)
      [] k = 7 -> ApplyInclude(rec, "storage", update.include_storage)

\* the module as it is after one POST /infrastructure was answered, every thread idle
InitThreads ==
    /\ factories = DefaultFactories
    /\ \E req \in {DefaultCreateRequest, VmOnly(DefaultCreateRequest)} :
        \E o \in {CreateInfrastructureOutcome(factories, req, 1, 0)} :
            /\ infra_store = RepoAdd(NoRecords, o.record)
            /\ audit_log = o.audits
    /\ clock = 0
    /\ vms = <<>>
    /\ vm_store = NoVMs
    /\ uuids = 0
    /\ threads = [t \in 1..MaxThreads |-> IdleThread]
    /\ last = Result("init", 0, 0, <<>>)

\* a request reaches a free thread
BeginRequest ==
    \E t \in DOMAIN threads, op \in {"update", "delete", "get", "list"},
       id \in DOMAIN infra_store,
       update \in {[NoUpdate EXCEPT !.vm_config = Some([instance_type |-> "t3.small"]),
                                    !.database_config = Some([engine |-> "postgres"])],
                   [NoUpdate EXCEPT !.include_storage = "False"]} :
        /\ threads[t].pc = "idle"
        /\ op # "update" => update.include_storage = "False"
        /\ threads' = [threads EXCEPT ![t] =
               [IdleThread EXCEPT !.op = op, !.pc = "check", !.id = id,
                                  !.update = IF op = "update" THEN update ELSE NoUpdate]]
        /\ UNCHANGED <<vm_store, uuids, vms, factories, infra_store, audit_log, clock, last>>

\* one statement of PUT /infrastructure/{id}: the test of _InfrastructureRepository.update,
\* one block of _apply, "rec.updated_at = datetime.utcnow()", or the return
update_step ==
    \E t \in DOMAIN threads :
        /\ threads[t].op = "update"
        /\ \E th \in {threads[t]} :
            CASE th.pc = "check" ->
                   /\ threads' = [threads EXCEPT ![t] =
                          IF Missing(infra_store, th.id)
                          THEN [th EXCEPT !.pc = "done", !.status = 404]
                          ELSE [th EXCEPT !.pc = "apply", !.step = 1,
                                          !.before = <<infra_store[th.id]>>]]
                   /\ infra_store' = infra_store
              [] th.pc = "apply" ->
                   /\ infra_store' = [infra_store EXCEPT ![th.id] =
                                          ApplyStep(@, th.update, th.step)]
                   /\ threads' = [threads EXCEPT ![t] =
                          IF th.step = 7 THEN [th EXCEPT !.pc = "stamp"]
                          ELSE [th EXCEPT !.step = @ + 1]]
              [] th.pc = "stamp" ->
                   /\ infra_store' = [infra_store EXCEPT ![th.id].updated_at = clock]
                   /\ threads' = [threads EXCEPT ![t].pc = "return"]
              [] th.pc = "return" ->
                   /\ infra_store' = infra_store
                   /\ threads' = [threads EXCEPT ![t] =
                          [th EXCEPT !.pc = "done", !.status = 200,
                                     !.out = <<infra_store[th.id]>>]]
              [] OTHER -> FALSE
        /\ UNCHANGED <<vm_store, uuids, vms, factories, audit_log, clock, last>>

\* one statement of DELETE /infrastructure/{id}: the test of
\* _InfrastructureRepository.delete, 'rec.status = "deleted"',
\* "rec.updated_at = datetime.utcnow()", or the return
delete_step ==
    \E t \in DOMAIN threads :
        /\ threads[t].op = "delete"
        /\ \E th \in {threads[t]} :
            CASE th.pc = "check" ->
                   /\ threads' = [threads EXCEPT ![t] =
                          IF Missing(infra_store, th.id)
                          THEN [th EXCEPT !.pc = "done", !.status = 404]
                          ELSE [th EXCEPT !.pc = "mark",
                                          !.before = <<infra_store[th.id]>>]]
                   /\ infra_store' = infra_store
              [] th.pc = "mark" ->
                   /\ infra_store' = [infra_store EXCEPT ![th.id].status = "deleted"]
                   /\ threads' = [threads EXCEPT ![t].pc = "stamp"]
              [] th.pc = "stamp" ->
                   /\ infra_store' = [infra_store EXCEPT ![th.id].updated_at = clock]
                   /\ threads' = [threads EXCEPT ![t].pc = "return"]
              [] th.pc = "return" ->
                   /\ infra_store' = infra_store
                   /\ threads' = [threads EXCEPT ![t] =
                          [th EXCEPT !.pc = "done", !.status = 200,
                                     !.out = <<infra_store[th.id]>>]]
              [] OTHER -> FALSE
        /\ UNCHANGED <<vm_store, uuids, vms, factories, audit_log, clock, last>>

\* GET /infrastructure/{id} and GET /infrastructure: the handler returns the records
\* the store holds at that moment
read_step ==
    \E t \in DOMAIN threads :
        /\ threads[t].op \in {"get", "list"}
        /\ threads[t].pc = "check"
        /\ threads' = [threads EXCEPT ![t] =
               IF threads[t].op = "list"
               THEN [@ EXCEPT !.pc = "done", !.status = 200,
                              !.out = ActiveFrom(infra_store, 1)]
               ELSE IF Missing(infra_store, threads[t].id)
               THEN [@ EXCEPT !.pc = "done", !.status = 404]
               ELSE [@ EXCEPT !.pc = "done", !.status = 200,
                              !.out = <<infra_store[threads[t].id]>>]]
        /\ UNCHANGED <<vm_store, uuids, vms, factories, infra_store, audit_log, clock, last>>

NextThreads ==
    \/ Tick
    \/ BeginRequest
    \/ update_step
    \/ delete_step
    \/ read_step

SpecThreads == InitThreads /\ [][NextThreads]_vars

\* ------------------------------------------------------- /logs endpoints
\* the response of an endpoint, with the query it handed to log_service.get_logs when it
\* called it
ApiResult(op, status, called, query, logs, total) ==
    [op |-> op, status |-> status, called |-> called, query |-> query, logs |-> logs,
     total |-> total, stats |-> EmptyDict]

\* LogsQuery(): every field at its default
DefaultLogsQuery == LogsQuery(NoStr, NoStr, NoStr, "None", NoStr, 1, 50)

InitLogsApi ==
    /\ factories = DefaultFactories
    /\ infra_store = NoRecords
    /\ audit_log \in UNION {LogFilesOfLength(n) : n \in 0..MaxLines}
    /\ clock = 0
    /\ vms = <<>>
    /\ vm_store = NoVMs
    /\ uuids = 0
    /\ threads = <<>>
    /\ last = ApiResult("init", 0, FALSE, DefaultLogsQuery, <<>>, 0)

\* GET /logs: Query(1, ge=1) and Query(50, ge=1, le=200) refuse a request with 422 before
\* the handler runs
get_audit_logs ==
    /\ \E actor \in {NoStr, SomeStr(<<"A", "L">>)}, success \in {"None", "False"},
          page \in {0, 1, 2}, page_size \in {0, 1, 2, 50, 200, 201} :
           IF page < 1 \/ page_size < 1 \/ page_size > 200
           THEN last' = ApiResult("get_audit_logs", 422, FALSE, DefaultLogsQuery, <<>>, 0)
           ELSE \E query \in {LogsQuery(actor, NoStr, NoStr, success, NoStr,
                                        page, page_size)} :
                \E r \in {GetLogs(audit_log, query)} :
                    last' = ApiResult("get_audit_logs", 200, TRUE, query, r.logs, r.total)
    /\ UNCHANGED <<threads, vm_store, uuids, vms, factories, infra_store, audit_log, clock>>

\* GET /logs/recent: Query(100, ge=1, le=500), then LogService.get_recent_logs(limit),
\* which asks get_logs for page 1 with page_size = limit
get_recent_logs ==
    /\ \E limit \in {0, 1, 2, 100, 200, 201, 500, 501} :
           IF limit < 1 \/ limit > 500
           THEN last' = ApiResult("get_recent_logs", 422, FALSE, DefaultLogsQuery, <<>>, 0)
           ELSE \E query \in {[DefaultLogsQuery EXCEPT !.page = 1, !.page_size = limit]} :
                \E r \in {GetLogs(audit_log, query)} :
                    last' = ApiResult("get_recent_logs", 200, TRUE, query, r.logs,
                                      Len(r.logs))
    /\ UNCHANGED <<threads, vm_store, uuids, vms, factories, infra_store, audit_log, clock>>

\* GET /logs/stats: any exception of get_stats becomes a 500
get_log_statistics ==
    /\ \E r \in {GetStats(audit_log)} :
           last' = [ApiResult("get_log_statistics", IF r.ok THEN 200 ELSE 500, FALSE,
                              DefaultLogsQuery, <<>>, 0)
                        EXCEPT !.stats = IF r.ok THEN r.res ELSE EmptyDict]
    /\ UNCHANGED <<threads, vm_store, uuids, vms, factories, infra_store, audit_log, clock>>

NextLogsApi ==
    \/ get_audit_logs
    \/ get_recent_logs
    \/ get_log_statistics

SpecLogsApi == InitLogsApi /\ [][NextLogsApi]_vars

\* ------------------------------------------------- properties: VM lifecycle
\* C1: start() on a virtual machine succeeds only from status stopped and leaves it
\* running; from any other status it fails with the invalid-transition error
\* (ValueError in the code) and the status is unchanged.
C1_StartOnlyFromStopped ==
    last.op = "start" =>
        IF last.pre = "stopped"
        THEN last.ok /\ vms[last.id].status = "running"
        ELSE ~last.ok /\ last.err = "ValueError" /\ vms[last.id].status = last.pre

\* C2: stop() on a virtual machine succeeds only from status running and leaves it
\* stopped; from any other status it fails with the invalid-transition error and the
\* status is unchanged.
C2_StopOnlyFromRunning ==
    last.op = "stop" =>
        IF last.pre = "running"
        THEN last.ok /\ vms[last.id].status = "stopped"
        ELSE ~last.ok /\ last.err = "ValueError" /\ vms[last.id].status = last.pre

\* C3: restart on a virtual machine succeeds only from status running and leaves it
\* running; from any other status it fails with the invalid-transition error and the
\* status is unchanged.
C3_RestartOnlyFromRunning ==
    last.op = "restart" =>
        IF last.pre = "running"
        THEN last.ok /\ vms[last.id].status = "running"
        ELSE ~last.ok /\ last.err = "ValueError" /\ vms[last.id].status = last.pre

\* --------------------------------------- properties: infrastructure records
\* C4: creating an infrastructure is all-or-nothing.  A create in which some requested
\* resource was not constructed adds no record to the repository; a create adds a
\* record only when every requested kind was constructed, and the record then holds
\* exactly the requested kinds.
C4_AllOrNothing ==
    [][(last'.op = "create" /\ clock' = clock) =>
           /\ last'.built # last'.requested => infra_store' = infra_store
           /\ infra_store' # infra_store =>
                  /\ last'.built = last'.requested
                  /\ DOMAIN infra_store' = DOMAIN infra_store \cup {last'.id}
                  /\ last'.id \notin DOMAIN infra_store
                  /\ DOMAIN infra_store'[last'.id].resources
                         = {last'.requested[i] : i \in DOMAIN last'.requested}
                  /\ \A i \in DOMAIN infra_store : infra_store'[i] = infra_store[i]]_vars

\* a create that built the VM, failed on a later kind, and stored nothing
C4_PartialFailure ==
    /\ last.op = "create"
    /\ last.built = <<"virtual_machine">>
    /\ Len(last.requested) > 1
    /\ last.status = 500
    /\ infra_store = NoRecords

\* C5: get(id) returns the record exactly when a record with that id is stored and
\* active, and fails with NotFound (404) otherwise; the record a successful create
\* returns is stored active with a virtual_machine resource; a record that is deleted
\* stays deleted, so every later get fails and no later list contains it.
C5_GetIffActive ==
    /\ [](/\ last.op = "get" =>
                IF last.id \in DOMAIN infra_store /\ infra_store[last.id].status = "active"
                THEN last.status = 200 /\ last.out = <<infra_store[last.id]>>
                ELSE last.status = 404 /\ last.out = <<>>
          /\ (last.op = "create" /\ last.status = 200) =>
                /\ last.id \in DOMAIN infra_store
                /\ infra_store[last.id].status = "active"
                /\ "virtual_machine" \in DOMAIN infra_store[last.id].resources
          /\ (last.op = "delete" /\ last.status = 200) =>
                infra_store[last.id].status = "deleted"
          /\ last.op = "list" =>
                \A i \in DOMAIN last.out : last.out[i].status = "active")
    /\ [][\A i \in DOMAIN infra_store :
              infra_store[i].status = "deleted" =>
                  i \in DOMAIN infra_store' /\ infra_store'[i].status = "deleted"]_vars

\* get of a soft-deleted record answered with NotFound
C5_GetAfterDelete ==
    /\ last.op = "get"
    /\ last.status = 404
    /\ last.id \in DOMAIN infra_store
    /\ infra_store[last.id].status = "deleted"

\* C6: soft delete is not idempotent.  delete of an active record succeeds and sets its
\* status to deleted; delete of a record that is already deleted fails with NotFound
\* and leaves the record, updated_at included, as it was.
C6_DeleteNotIdempotent ==
    [][(last'.op = "delete" /\ clock' = clock /\ last'.id \in DOMAIN infra_store) =>
           IF infra_store[last'.id].status = "active"
           THEN /\ last'.status = 200
                /\ infra_store'[last'.id].status = "deleted"
           ELSE /\ last'.status = 404
                /\ infra_store' = infra_store]_vars

\* a second delete, at a later time, of a record deleted earlier
C6_SecondDelete ==
    /\ last.op = "delete"
    /\ last.status = 404
    /\ last.id \in DOMAIN infra_store
    /\ infra_store[last.id].status = "deleted"
    /\ infra_store[last.id].updated_at < clock

\* C7: the set of ids in the store never loses an element, and list() returns exactly
\* the stored records whose status is active, each once.
C7_NoRowErased ==
    /\ [][DOMAIN infra_store \subseteq DOMAIN infra_store']_vars
    /\ [](last.op = "list" =>
              /\ {last.out[i] : i \in DOMAIN last.out}
                     = {infra_store[i] : i \in {j \in DOMAIN infra_store :
                                                    infra_store[j].status = "active"}}
              /\ Len(last.out)
                     = Cardinality({j \in DOMAIN infra_store :
                                        infra_store[j].status = "active"}))

\* a list taken while the store still holds a record that was deleted
C7_ListSkipsDeleted ==
    /\ last.op = "list"
    /\ \E i \in DOMAIN infra_store :
           /\ infra_store[i].status = "deleted"
           /\ \A k \in DOMAIN last.out : last.out[k].id # i

\* C8: update on an active record shallow-merges each supplied (non-empty) spec into
\* the stored spec of the same kind: supplied keys overwrite, the other stored keys are
\* kept; a supplied kind the record did not contain is added and its include flag is
\* true afterwards; updated_at is stamped.
C8_UpdateMerges ==
    [][(last'.op = "update" /\ last'.status = 200 /\ clock' = clock) =>
           LET old == infra_store[last'.id]
               new == infra_store'[last'.id]
               supplied == [virtual_machine |-> last'.req.vm_config,
                            database |-> last'.req.database_config,
                            load_balancer |-> last'.req.load_balancer_config,
                            storage |-> last'.req.storage_config]
           IN /\ new.updated_at = clock
              /\ \A kind \in DOMAIN supplied :
                     (supplied[kind].some /\ supplied[kind].val # EmptyDict) =>
                         LET cfg == supplied[kind].val
                         IN IF kind \in DOMAIN old.resources
                            THEN /\ DOMAIN new.resources[kind].specs
                                        = DOMAIN old.resources[kind].specs \cup DOMAIN cfg
                                 /\ \A k \in DOMAIN cfg : new.resources[kind].specs[k] = cfg[k]
                                 /\ \A k \in DOMAIN old.resources[kind].specs \ DOMAIN cfg :
                                        new.resources[kind].specs[k]
                                            = old.resources[kind].specs[k]
                            ELSE /\ kind \in DOMAIN new.resources
                                 /\ new.includes[kind] = TRUE]_vars

\* C9: update on an id that is absent or soft-deleted fails with NotFound and leaves
\* every stored record unchanged.
C9_UpdateMissingChangesNothing ==
    [][(last'.op = "update" /\ clock' = clock
            /\ (last'.id \notin DOMAIN infra_store
                    \/ infra_store[last'.id].status # "active")) =>
           /\ last'.status = 404
           /\ infra_store' = infra_store]_vars

\* an update, at a later time, of a record deleted earlier, refused
C9_UpdateAfterDelete ==
    /\ last.op = "update"
    /\ last.status = 404
    /\ last.id \in DOMAIN infra_store
    /\ infra_store[last.id].status = "deleted"
    /\ infra_store[last.id].updated_at < clock

\* C10: every attempt of a mutating operation appends exactly one audit entry, success
\* or failure.  Stated for infrastructure create: the attempt appends one entry.
C10_OneAuditEntryPerAttempt ==
    [][(last'.op = "create" /\ clock' = clock) =>
           /\ Len(audit_log') = Len(audit_log) + 1
           /\ SubSeq(audit_log', 1, Len(audit_log)) = audit_log]_vars

\* C11: every failing attempt of a mutating operation, whatever its cause, has appended
\* exactly one audit entry with success=false when the error reaches the caller.
\* Stated for the infrastructure endpoints create, update and delete.
C11_OneFailureEntryPerFailure ==
    [][(last'.op \in {"create", "update", "delete"} /\ last'.status # 200
            /\ clock' = clock) =>
           /\ Len(audit_log') >= Len(audit_log)
           /\ SubSeq(audit_log', 1, Len(audit_log)) = audit_log
           /\ Cardinality({i \in (Len(audit_log) + 1)..Len(audit_log') :
                               ~audit_log'[i].success}) = 1]_vars

\* C12: a resource or VM record handed back by a creation operation has status creating;
\* no provisioning path returns it already running or stopped.  Stated for the VM
\* records POST /vm/create returns.
C12_ProvisionedInCreating ==
    (last.op = "create" /\ last.status = 200) =>
        \A i \in DOMAIN last.out : last.out[i].status = StatusCreating

\* C13: resize(new_size) on a virtual machine of any provider whose status is not
\* deleting sets the VM's size-class field to new_size and leaves the status unchanged;
\* while the status is deleting it fails and changes nothing.
C13_ResizeSetsSizeClass ==
    last.op = "resize" =>
        LET vm == vms[last.id]
        IN IF last.pre # "deleting"
           THEN /\ last.ok
                /\ vm.status = last.pre
                /\ SizeField(vm.type) \in DOMAIN vm.specs
                /\ vm.specs[SizeField(vm.type)] = last.arg
           ELSE ~last.ok /\ vm.status = last.pre

C15_ErrorNamesEveryMissingField ==
    (/\ last.op = "create"
     /\ last.with_name = (last.provider # "onprem")
     /\ MissingFields(last.config, RequiredFields[last.provider][last.kind]) # <<>>) =>
        /\ ~last.ok
        /\ last.res = EmptyDict
        /\ last.missing = MissingFields(last.config, RequiredFields[last.provider][last.kind])

\* C16: for each of the five providers and each of the four kinds, create_<kind>(name,
\* config) with a config holding every required field with an allowed value succeeds
\* and returns a resource of that kind carrying the name.
C16_UniformCreateSucceeds ==
    (/\ last.op = "create"
     /\ last.with_name
     /\ last.config = SampleConfig[last.provider][last.kind]) =>
        /\ last.ok
        /\ last.res.name = last.name
        /\ last.res.resource_id \in ResourceIdPrefixes[last.kind]

\* C17: get_logs keeps an entry exactly when it satisfies every supplied filter at once:
\* actor, action, provider and resource id match as case-insensitive substrings of the
\* entry's field, success matches by equality, and an absent filter excludes nothing.
\* The total is the number of such entries, every returned entry is one of them, and
\* the pages read up to the empty one hold each of them as often as the file does.
C17_FiltersAreAnded ==
    last.op = "get_logs" =>
        LET Sub(filter, value) ==
                filter.some => Contains(StrLower(filter.val), StrLower(value))
            Matches(e) ==
                /\ Sub(last.filter.actor, e.actor)
                /\ Sub(last.filter.action, e.action)
                /\ Sub(last.filter.provider, e.provider)
                /\ Sub(last.filter.vm_id, e.vm_id)
                /\ last.filter.success = "True" => e.success
                /\ last.filter.success = "False" => ~e.success
            InFile(e) == {i \in DOMAIN audit_log : audit_log[i] = EntryLine(e)}
            matching == {i \in DOMAIN audit_log :
                            audit_log[i].kind = "entry" /\ Matches(audit_log[i].entry)}
        IN /\ last.total = Cardinality(matching)
           /\ \A j \in DOMAIN last.logs : Matches(last.logs[j])
           /\ last.logs = <<>> =>
                  \A e \in SampleEntries :
                      Cardinality({j \in DOMAIN last.seen : last.seen[j] = e})
                          = IF Matches(e) THEN Cardinality(InFile(e)) ELSE 0

\* two filters at once, each of which alone keeps an entry the other one drops
C17_TwoFiltersNarrow ==
    /\ last.op = "get_logs"
    /\ last.filter.provider.some
    /\ last.filter.success = "False"
    /\ ~last.filter.actor.some /\ ~last.filter.action.some /\ ~last.filter.vm_id.some
    /\ Len(ReadForLogs(audit_log)) = 3
    /\ last.total = 1
    /\ \E i \in DOMAIN audit_log :
           audit_log[i].kind = "entry" /\ audit_log[i].entry.provider = <<"A", "W", "S">>
    /\ \E i \in DOMAIN audit_log :
           audit_log[i].kind = "entry" /\ audit_log[i].entry.provider = <<"a", "z", "u", "r", "e">>

\* C18: with M entries matching the filter, get_logs returns total = M whatever the page
\* and page size, and the entries at positions (page-1)*page_size .. page*page_size-1 of
\* the matching entries in descending order of timestamp, so at most min(M, page_size).
C18_TotalAndPageSlice ==
    last.op = "get_logs" =>
        LET matching == ApplyFilters(ReadForLogs(audit_log), last.filter)
            M == Len(matching)
            first == (last.page - 1) * last.page_size
            Later(t) == {i \in DOMAIN matching : StrLess(t, matching[i].timestamp)}
            NotEarlier(t) == {i \in DOMAIN matching : ~StrLess(matching[i].timestamp, t)}
        IN /\ last.total = M
           /\ Len(last.logs) = IF M <= first THEN 0
                                ELSE IF M - first < last.page_size THEN M - first
                                ELSE last.page_size
           /\ \A j \in DOMAIN last.logs :
                  /\ \E i \in DOMAIN matching : matching[i] = last.logs[j]
                  /\ Cardinality(Later(last.logs[j].timestamp)) <= first + j - 1
                  /\ Cardinality(NotEarlier(last.logs[j].timestamp)) >= first + j

\* a second page that is shorter than the page size, of three matching entries
C18_ShortLastPage ==
    /\ last.op = "get_logs"
    /\ last.page = 2
    /\ last.page_size = 2
    /\ last.total = 3
    /\ Len(last.logs) = 1
    /\ last.filter.success = "False"
    /\ Len(ReadForLogs(audit_log)) = 3
    /\ last.logs[1].timestamp = <<"1", ".", "5", "Z">>

\* C19: for a fixed log, filter and page size, the pages 1, 2, ... up to the first empty
\* one, put end to end, are the whole filtered result in descending order of timestamp:
\* each matching entry once, also when entries share a timestamp.
C19_PagesReconstructResult ==
    (last.op = "get_logs" /\ last.logs = <<>>) =>
        LET matching == ApplyFilters(ReadForLogs(audit_log), last.filter)
        IN /\ Len(last.seen) = Len(matching)
           /\ \A e \in SampleEntries :
                  Cardinality({j \in DOMAIN last.seen : last.seen[j] = e})
                      = Cardinality({i \in DOMAIN matching : matching[i] = e})
           /\ \A j \in 1..(Len(last.seen) - 1) :
                  ~StrLess(last.seen[j].timestamp, last.seen[j + 1].timestamp)

\* three entries read one per page, two of them with the same timestamp
C19_TiesAcrossPages ==
    /\ last.op = "get_logs"
    /\ last.logs = <<>>
    /\ last.page_size = 1
    /\ last.page = 4
    /\ Len(last.seen) = 3
    /\ last.seen[2].timestamp = last.seen[3].timestamp
    /\ last.seen[2] # last.seen[3]
    /\ StrLess(last.seen[2].timestamp, last.seen[1].timestamp)

\* C20: a line that cannot be turned into an audit entry (not JSON, or JSON that is not
\* a valid entry) is skipped and never fatal: with N valid lines and one such line,
\* get_stats reports total N, get_logs without filters reports total N, neither fails.
C20_CorruptLineSkipped ==
    LET corrupt == {i \in DOMAIN audit_log : audit_log[i].kind \in {"text", "json"}}
        valid == {i \in DOMAIN audit_log : audit_log[i].kind = "entry"}
    IN Cardinality(corrupt) = 1 =>
           /\ last.op = "get_stats" =>
                  last.ok /\ last.stats.total_operations = Cardinality(valid)
           /\ (last.op = "get_logs" /\ ApplyFilters(ReadForLogs(audit_log), last.filter)
                                           = ReadForLogs(audit_log)) =>
                  last.ok /\ last.total = Cardinality(valid)

\* C21: every call of LogService.get_logs made by a caller-facing endpoint (GET /logs and
\* GET /logs/recent) carries page >= 1 and 1 <= page_size <= 200.
C21_EndpointsClampPageSize ==
    (last.op \in {"get_audit_logs", "get_recent_logs"} /\ last.called)
        => (last.query.page >= 1 /\ last.query.page_size >= 1
            /\ last.query.page_size <= 200)

\* C22: validate_region answers true for every region a cloud provider (aws, azure, gcp,
\* oracle) lists, false for every other region value, and true for every region value
\* when the provider is on-premise.
C22_ValidateRegionFollowsCatalog ==
    last.op = "validate_region" =>
        last.ok = (IF last.provider = "onprem" THEN TRUE
                   ELSE last.config["region"] \in SupportedRegions[last.provider])

\* the region of one cloud asked of another cloud is refused
C22_RegionOfAnotherCloud ==
    /\ last.op = "validate_region"
    /\ last.provider = "gcp"
    /\ last.config["region"] \in AWSRegions
    /\ ~last.ok

\* C23: the resource_id of every virtual machine a provider factory created starts with
\* the short code of its provider (aws-, azure-, gcp-, oracle-, onprem-), and no
\* operation on the machine changes it.
C23_ResourceIdHasProviderCode ==
    /\ [](\A i \in DOMAIN vms :
            LET Chars == [s \in {"i-", "vm-", "oci-vm-", "onprem-vm-"} |->
                            CASE s = "i-" -> <<"i", "-">>
                              [] s = "vm-" -> <<"v", "m", "-">>
                              [] s = "oci-vm-" -> <<"o", "c", "i", "-", "v", "m", "-">>
                              [] s = "onprem-vm-" ->
                                   <<"o", "n", "p", "r", "e", "m", "-", "v", "m", "-">>]
                ShortCode == CASE vms[i].type = "AWS::EC2::Instance" -> <<"a", "w", "s", "-">>
                               [] vms[i].type = "Microsoft.Compute/virtualMachines" ->
                                    <<"a", "z", "u", "r", "e", "-">>
                               [] vms[i].type = "oracle.compute.instance" ->
                                    <<"o", "r", "a", "c", "l", "e", "-">>
                               [] vms[i].type = "onprem.virtual_machine" ->
                                    <<"o", "n", "p", "r", "e", "m", "-">>
                id == Chars[vms[i].resource_id]
            IN Len(id) >= Len(ShortCode) /\ SubSeq(id, 1, Len(ShortCode)) = ShortCode)
    /\ [][\A i \in DOMAIN vms : vms'[i].resource_id = vms[i].resource_id]_vars

\* C24: concurrent update and delete requests on one infrastructure id behave as if
\* they ran one after the other: at most one delete of the id succeeds, an update that
\* reports success returns the active record, and once a delete of the id has been
\* answered with success the record is not modified any more.
C24_UpdateDeleteSerialized ==
    /\ [](\A id \in DOMAIN infra_store :
            /\ Cardinality({t \in DOMAIN threads :
                   threads[t].op = "delete" /\ threads[t].id = id
                   /\ threads[t].status = 200}) <= 1
            /\ \A t \in DOMAIN threads :
                   (threads[t].op = "update" /\ threads[t].id = id
                    /\ threads[t].status = 200) => threads[t].out[1].status = "active")
    /\ [][\A id \in DOMAIN infra_store :
            (\E t \in DOMAIN threads :
                threads[t].op = "delete" /\ threads[t].id = id /\ threads[t].status = 200)
                => infra_store'[id] = infra_store[id]]_vars

\* C25: a record that get or list returns while an update of it is in progress is the
\* record as it was before that update or as it is after the whole update (every
\* merged config, every include flag and updated_at), never a state in between.
C25_NoTornRead ==
    \A r \in DOMAIN threads, u \in DOMAIN threads :
        (/\ threads[r].op \in {"get", "list"}
         /\ threads[r].status = 200
         /\ threads[u].op = "update"
         /\ threads[u].before # <<>>
         /\ \A t \in DOMAIN threads \ {r, u} : threads[t].op \in {"none", "get", "list"})
            => \A i \in DOMAIN threads[r].out :
                   \/ threads[r].out[i] = threads[u].before[1]
                   \/ \E now \in 0..MaxClock :
                          threads[r].out[i] =
                              [Apply(threads[u].before[1], threads[u].update)
                                   EXCEPT !.updated_at = now]

\* C26: the details of an audit entry do not depend on the values of the parameters the
\* caller supplied: two updates of one VM that supply the same fields with different
\* values append entries with identical details.
C26_DetailsIgnoreParameterValues ==
    [][(/\ last.op = "update" /\ last.status = 200
        /\ last'.op = "update" /\ last'.status = 200
        /\ last'.id = last.id
        /\ DOMAIN last'.req = DOMAIN last.req
        /\ Len(audit_log') = Len(audit_log) + 1)
          => audit_log'[Len(audit_log')].details = audit_log[Len(audit_log)].details]_vars

\* C27: in every stored infrastructure record the include flag of each optional kind
\* (database, load_balancer, storage) is true exactly when the record's resources
\* contain a resource of that kind.
C27_IncludesMatchResources ==
    \A id \in DOMAIN infra_store :
        \A kind \in {"database", "load_balancer", "storage"} :
            infra_store[id].includes[kind] <=> (kind \in DOMAIN infra_store[id].resources)

\* C28: for every provider, a virtual machine in status creating can be brought to
\* status running by some finite sequence of start, stop and restart calls (three calls
\* reach every status the calls can reach: they move between at most three statuses).
C28_CreatingCanReachRunning ==
    LET After(S) == S \cup {Start(vm).vm : vm \in S} \cup {Stop(vm).vm : vm \in S}
                      \cup {Restart(vm).vm : vm \in S}
    IN \A i \in DOMAIN vms :
           vms[i].status = "creating" =>
               \E vm \in After(After(After({vms[i]}))) : vm.status = "running"

\* C29: for every content of the log file, get_stats() followed by a get_logs() with
\* no filter agree on the parsed entries: the statistics come back, their
\* total_operations is the total get_logs reports, and successful_operations +
\* failed_operations is that total.
C29_StatsAgreeWithLogs ==
    [][(/\ last.op = "get_stats" /\ last'.op = "get_logs"
        /\ last.filter = [actor |-> NoStr, action |-> NoStr, provider |-> NoStr,
                          success |-> "None", vm_id |-> NoStr])
          => /\ last.ok
             /\ last.stats.total_operations = last'.total
             /\ last.stats.successful_operations + last.stats.failed_operations
                    = last'.total]_vars

\* C30: no resource of a cloud provider (aws, azure, gcp, oracle) is constructed with a
\* region for which the provider's validate_region returns false: a creation that
\* succeeds returns a resource whose region the factory accepts.
C30_NoResourceInRejectedRegion ==
    (last.op = "create" /\ last.ok /\ last.provider \in DOMAIN SupportedRegions)
        => FactoryValidateRegion(factories[last.provider], last.res.region)

====
